---- MODULE Spec2Model ----
(***************************************************************************)
(* Model of the lyric resolver (LDDC/core/auto_fetch_sync.py: auto_fetch)  *)
(* of the Kuwo adapter (LDDC/core/api/lyrics/kw.py) and of the search      *)
(* endpoint's search_lyrics_api (api_server.py, flask_server.py).          *)
(*                                                                         *)
(* Scores are floats in the source; here they are integers in hundredths   *)
(* of a point (a similarity of 95 is 95, a combined score is 9500), so     *)
(* that the weighted sums 0.5/0.35/0.15/0.7/0.3/0.8 are exact.             *)
(***************************************************************************)
EXTENDS Integers, Sequences, FiniteSets, TLC

VARIABLES
    info,                    \* the SongInfo query (argument of auto_fetch)
    sources,                 \* the `sources` argument, an ordered list
    return_search_results,   \* the `return_search_results` argument
    pc,                      \* position of the orchestrating call
    keywords,                \* dict key -> keyword
    search_tasks,            \* one future per entry of sources
    completed_searches,      \* the done-set returned by wait()
    processed,               \* futures of completed_searches already iterated
    potential_lyrics_tasks,  \* dict Future -> SongInfo, in submission order
    collected,               \* fetch futures already yielded by as_completed
    songs_score,             \* dict SongInfo -> score
    search_results,          \* dict SongInfo -> APIResultList
    lyrics_results,          \* dict SongInfo -> Lyrics
    errors,                  \* list of collected exceptions
    result,                  \* what the call returned or raised
    gate,                    \* one application of the duration gate (line 84)
    kw,                      \* one call of the Kuwo adapter's get_lyrics
    sc,                      \* one structured scoring of a row (lines 88-97)
    xr,                      \* one request/response pass through the Kuwo cipher
    lrc,                     \* one call of the Kuwo adapter's _convert_kuwo_lrc
    api,                     \* one call of search_lyrics_api
    other                    \* a second auto_fetch call while the first one runs

vars == <<info, sources, return_search_results, pc, keywords, search_tasks,
          completed_searches, processed, potential_lyrics_tasks, collected,
          songs_score, search_results, lyrics_results, errors, result, gate, kw,
          sc, xr, lrc, api, other>>

\* the variables of the checks of single functions
pureVars == <<gate, kw, sc, xr, lrc, api, other>>

None == "None"

----------------------------------------------------------------------------
(* Bounds of the model *)

MaxPageLen == 3
MaxTagLen == 3
MaxBytes == 8
MaxLines == 4
MaxToks == 3
MaxApiRows == 2

----------------------------------------------------------------------------
(* Program constants *)

MIN_SCORE == 55
DURATION_GATE == 4000
TOLERANCE == 15
TOP_N == 2
PENALTY == 35
PENALTY_BELOW == 30
RANK_VERBATIM == 10
RANK_TS == 5
RANK_ROMA == 2

Max(a, b) == IF a >= b THEN a ELSE b
Abs(a) == IF a >= 0 THEN a ELSE -a

----------------------------------------------------------------------------
(* The world outside auto_fetch: what the adapters can answer.             *)

\* The SongInfo rows the adapters return (kw.py builds one per abslist item).
\* tsc/asc/alsc/fsc are the values the similarity primitives give for this
\* row against the query (title, artist, album, file-name stem), 0..100;
\* duration 0 is a row without duration (kw.py: DURATION missing -> 0);
\* lyr is the Lyrics the provider holds for the row.
SongTable ==
    [q1 |-> [source |-> "QM", tsc |-> 95, artist |-> TRUE,  asc |-> 80, album |-> TRUE,  alsc |-> 100,
             fsc |-> 95, duration |-> 200000, lyr |-> [verbatim |-> FALSE, ts |-> TRUE, roma |-> FALSE]],
     q2 |-> [source |-> "QM", tsc |-> 90, artist |-> TRUE,  asc |-> 100, album |-> FALSE, alsc |-> 0,
             fsc |-> 60, duration |-> 204000, lyr |-> [verbatim |-> FALSE, ts |-> TRUE, roma |-> FALSE]],
     q3 |-> [source |-> "QM", tsc |-> 81, artist |-> FALSE, asc |-> 0, album |-> TRUE,  alsc |-> 0,
             fsc |-> 56, duration |-> 196000, lyr |-> [verbatim |-> TRUE, ts |-> TRUE, roma |-> FALSE]],
     k1 |-> [source |-> "KG", tsc |-> 80, artist |-> TRUE,  asc |-> 90, album |-> TRUE,  alsc |-> 40,
             fsc |-> 80, duration |-> 200000, lyr |-> [verbatim |-> TRUE, ts |-> FALSE, roma |-> FALSE]],
     k2 |-> [source |-> "KG", tsc |-> 74, artist |-> FALSE, asc |-> 0, album |-> FALSE, alsc |-> 0,
             fsc |-> 55, duration |-> 200000, lyr |-> [verbatim |-> FALSE, ts |-> TRUE, roma |-> TRUE]],
     w1 |-> [source |-> "KW", tsc |-> 70, artist |-> TRUE,  asc |-> 60, album |-> FALSE, alsc |-> 0,
             fsc |-> 70, duration |-> 200000, lyr |-> [verbatim |-> TRUE, ts |-> TRUE, roma |-> FALSE]],
     w2 |-> [source |-> "KW", tsc |-> 55, artist |-> FALSE, asc |-> 0, album |-> FALSE, alsc |-> 0,
             fsc |-> 55, duration |-> 200000, lyr |-> [verbatim |-> FALSE, ts |-> FALSE, roma |-> FALSE]],
     w3 |-> [source |-> "KW", tsc |-> 99, artist |-> FALSE, asc |-> 0, album |-> FALSE, alsc |-> 0,
             fsc |-> 99, duration |-> 205000, lyr |-> [verbatim |-> FALSE, ts |-> FALSE, roma |-> FALSE]],
     w4 |-> [source |-> "KW", tsc |-> 60, artist |-> FALSE, asc |-> 0, album |-> FALSE, alsc |-> 0,
             fsc |-> 25, duration |-> 0,      lyr |-> [verbatim |-> FALSE, ts |-> FALSE, roma |-> TRUE]],
     x1 |-> [source |-> "KW", tsc |-> 90, artist |-> FALSE, asc |-> 0, album |-> FALSE, alsc |-> 0,
             fsc |-> 90, duration |-> 200000, lyr |-> [verbatim |-> FALSE, ts |-> TRUE, roma |-> FALSE]],
     x2 |-> [source |-> "KW", tsc |-> 85, artist |-> FALSE, asc |-> 0, album |-> FALSE, alsc |-> 0,
             fsc |-> 85, duration |-> 200000, lyr |-> [verbatim |-> TRUE, ts |-> FALSE, roma |-> FALSE]]]

Songs == DOMAIN SongTable
Song(c) == SongTable[c]

\* Rows that the search of one source returns under the identifier of
\* another source (the adapter of NE is not part of the sources at hand; the
\* row's source identifier is data the adapter supplies).
ForeignRows == {"x1", "x2"}
ForeignVia == "NE"

SongsOf(src) ==
    {c \in Songs \ ForeignRows : Song(c).source = src}
    \cup (IF src = ForeignVia THEN ForeignRows ELSE {})

\* Sequences without repetition, of length at most n.
InjSeqs(S, n) ==
    UNION {{s \in [1..k -> S] : \A a, b \in 1..k : a # b => s[a] # s[b]} : k \in 0..n}

\* search(source, keyword, SearchType.SONG): the APIResultList an adapter may
\* return. kw.py echoes the keyword in SearchInfo; one page per source carries
\* another keyword.
Pages(src, keyword) ==
    {[kind |-> "page", keyword |-> keyword, items |-> it] : it \in InjSeqs(SongsOf(src), MaxPageLen)}
    \cup {[kind |-> "page", keyword |-> "other", items |-> it] :
             it \in {s \in InjSeqs(SongsOf(src), 1) : Len(s) = 1}}

NoPage == [kind |-> "none", keyword |-> None, items |-> <<>>]
RaisedPage == [kind |-> "raised", keyword |-> None, items |-> <<>>]

\* Everything a search future can hold once done: a page, None, an exception.
SearchOutcomes(src, keyword) == Pages(src, keyword) \cup {NoPage, RaisedPage}

\* The queries auto_fetch is called with. Duration 0 stands for None or 0.
TitledInfo == [title |-> "T", artist |-> None, album |-> None, path |-> None, duration |-> 200000]

Infos ==
    [title : {None, "", "  ", "T"}, artist : {None, "A"}, album : {None, "Al"},
     path : {None, "dir/stem.mp3"}, duration : {0}]

\* The calls: (info, sources, return_search_results).
Calls ==
    ({TitledInfo} \X {<<"QM", "KG">>, <<"KG", "QM">>} \X BOOLEAN)
    \cup ({TitledInfo} \X {<<"KW">>, <<"KG", "KG">>} \X {FALSE})
    \cup (Infos \X {<<"KG">>} \X {FALSE})
    \cup ({TitledInfo} \X {<<"NE">>} \X BOOLEAN)

----------------------------------------------------------------------------
(* Python dicts. A dict that is only looked up is a function; a dict whose *)
(* iteration order is used is a sequence of [k, v] items in insertion      *)
(* order (assigning to an existing key keeps its position).                *)

EmptyDict == [x \in {} |-> None]
Get(d, k) == IF k \in DOMAIN d THEN d[k] ELSE None

DictHas(d, k) == \E i \in 1..Len(d) : d[i].k = k
DictGet(d, k) == d[CHOOSE i \in 1..Len(d) : d[i].k = k].v
DictPut(d, k, v) ==
    IF DictHas(d, k)
    THEN [i \in 1..Len(d) |-> IF d[i].k = k THEN [k |-> k, v |-> v] ELSE d[i]]
    ELSE Append(d, [k |-> k, v |-> v])

\* list.sort(key=..., reverse=True) and sorted(..., reverse=True) on items
\* that carry their key: descending, equal keys keep their order.
RECURSIVE InsertDesc(_, _)
InsertDesc(sorted, x) ==
    IF sorted = <<>> THEN <<x>>
    ELSE IF Head(sorted).key >= x.key THEN <<Head(sorted)>> \o InsertDesc(Tail(sorted), x)
    ELSE <<x>> \o sorted

RECURSIVE SortDesc(_)
SortDesc(seq) ==
    IF seq = <<>> THEN <<>>
    ELSE InsertDesc(SortDesc(SubSeq(seq, 1, Len(seq) - 1)), seq[Len(seq)])

\* functools.reduce(lambda a, b: a + b, pages, first) on APIResultLists:
\* the rows of the pages, concatenated in order.
RECURSIVE ConcatPages(_, _)
ConcatPages(first, pages) ==
    IF pages = <<>> THEN first ELSE ConcatPages(first \o Head(pages), Tail(pages))

----------------------------------------------------------------------------
(* auto_fetch: keyword derivation *)

\* line 47: info.title and info.title.strip()
TitleGiven(q) == q.title \notin {None, "", "  "}

\* info.artist_title()
ArtistTitle(q) == "A - T"

\* info.path.stem
PathStem(path) == IF path = "dir/stem.mp3" THEN "stem" ELSE path

\* lines 53-55: the call raises NotEnoughInfoError
NotEnoughInfo(q) == ~TitleGiven(q) /\ q.path = None

\* lines 46-52
DeriveKeywords(q) ==
    IF TitleGiven(q)
    THEN IF q.artist # None
         THEN ("artist-title" :> ArtistTitle(q)) @@ ("title" :> q.title)
         ELSE ("title" :> q.title)
    ELSE IF q.path # None
         THEN ("file_name" :> PathStem(q.path))
         ELSE EmptyDict

\* KeywordToSearch with the title preferred over artist+title
KeywordToSearchTitleFirst(kws) ==
    IF Get(kws, "title") # None THEN kws["title"]
    ELSE IF Get(kws, "artist-title") # None THEN kws["artist-title"]
    ELSE kws["file_name"]

\* line 66
KeywordToSearch(kws) ==
    IF Get(kws, "artist-title") # None THEN kws["artist-title"]
    ELSE IF Get(kws, "title") # None THEN kws["title"]
    ELSE kws["file_name"]

\* an album_score or artist_score that is None
NoScore == -1

----------------------------------------------------------------------------
(* auto_fetch: scoring one search result row *)

\* line 84: TRUE when the row is skipped
DurationGate(qd, cd) ==
    /\ qd # 0
    /\ Abs((IF qd # 0 THEN qd ELSE -4) - (IF cd # 0 THEN cd ELSE -8)) > DURATION_GATE

\* line 89
AlbumScore(q, c) ==
    IF q.album # None /\ Song(c).album THEN Max(Song(c).alsc, 0) ELSE NoScore

\* line 90
ArtistScore(q, c) ==
    IF q.artist # None /\ Song(c).artist THEN Song(c).asc ELSE NoScore

\* lines 91-95, in hundredths: the score before the low-title penalty
\* (`elif album_score:` is false for None and for 0)
CompositeScore(t, a, al) ==
    IF a # NoScore
    THEN Max(50 * t + 50 * a,
             IF al # NoScore THEN 50 * t + 35 * a + 15 * al ELSE 0)
    ELSE IF al # NoScore /\ al # 0
         THEN Max(70 * t + 30 * al, 80 * t)
         ELSE 100 * t

\* StructuredScore with the penalty subtracted and no floor
StructuredScoreNoFloor(t, a, al) ==
    IF t < PENALTY_BELOW THEN CompositeScore(t, a, al) - 100 * PENALTY
    ELSE CompositeScore(t, a, al)

\* lines 91-97, in hundredths
StructuredScore(t, a, al) ==
    IF t < PENALTY_BELOW THEN Max(0, CompositeScore(t, a, al) - 100 * PENALTY)
    ELSE CompositeScore(t, a, al)

\* line 99, in hundredths
FileNameScore(c) == 100 * Song(c).fsc

\* line 87
StructuredKeyword(kws, page) ==
    page.keyword \in {Get(kws, "artist-title"), Get(kws, "title")}

\* lines 87-99
CandidateScore(q, kws, page, c) ==
    IF StructuredKeyword(kws, page)
    THEN StructuredScore(Song(c).tsc, ArtistScore(q, c), AlbumScore(q, c))
    ELSE FileNameScore(c)

\* PassesMinScore accepting a score equal to min_score
PassesMinScoreInclusive(score) == score >= 100 * MIN_SCORE

\* line 101
PassesMinScore(score) == score > 100 * MIN_SCORE

\* rows that pass line 84
GatePassing(q, page) ==
    SelectSeq(page.items, LAMBDA c : ~DurationGate(q.duration, Song(c).duration))

\* lines 83-99 raise for this page: keywords["file_name"] (line 99) is a
\* KeyError in a call that derived its keyword from the title
ScoringRaises(q, kws, page) ==
    /\ GatePassing(q, page) # <<>>
    /\ ~StructuredKeyword(kws, page)
    /\ "file_name" \notin DOMAIN kws

\* lines 82-104: result_score after the sort, as [key |-> score, song |-> row]
ResultScore(q, kws, page) ==
    LET scored == [i \in 1..Len(GatePassing(q, page)) |->
                     [key |-> CandidateScore(q, kws, page, GatePassing(q, page)[i]),
                      song |-> GatePassing(q, page)[i]]]
    IN  SortDesc(SelectSeq(scored, LAMBDA e : PassesMinScore(e.key)))

\* lines 107-108: the candidates lyrics are fetched for
TopCandidates(rs) == SubSeq(rs, 1, IF Len(rs) < TOP_N THEN Len(rs) ELSE TOP_N)

\* line 110: the page with the candidate moved to the front
CandidatePage(page, c) == <<c>> \o SelectSeq(page.items, LAMBDA r : r # c)

----------------------------------------------------------------------------
(* auto_fetch: fetching and selection *)

\* kw.py get_lyrics, lines 89-98: Lyrics(info=song_info) with the parsed data
LyricsOf(c) ==
    [info |-> c, verbatim |-> Song(c).lyr.verbatim, ts |-> Song(c).lyr.ts, roma |-> Song(c).lyr.roma]

NoLyrics == [kind |-> "none", song |-> None]
RaisedLyrics == [kind |-> "raised", song |-> None]

\* Everything a get_lyrics future can hold once done: Lyrics, None, an exception.
FetchOutcomes(c) == {[kind |-> "lyrics", song |-> c], NoLyrics, RaisedLyrics}

\* lines 139-144
get_rank(lyrics) ==
    (IF lyrics.verbatim THEN RANK_VERBATIM ELSE 0)
    + (IF lyrics.ts THEN RANK_TS ELSE 0)
    + (IF lyrics.roma THEN RANK_ROMA ELSE 0)

\* songs_score.get(song_info, 0), in hundredths
ScoreOf(scores, c) == IF c \in DOMAIN scores THEN scores[c] ELSE 0

RECURSIVE MaxScore(_, _)
MaxScore(scores, lr) ==
    IF lr = <<>> THEN 0
    ELSE Max(ScoreOf(scores, Head(lr).k), MaxScore(scores, Tail(lr)))

\* InBand with a strict comparison
InBandStrict(score, highest) == Abs(score - highest) < 100 * TOLERANCE

\* line 136
InBand(score, highest) == Abs(score - highest) <= 100 * TOLERANCE

\* lines 132-137: lyrics_results after the tolerance filter
Survivors(scores, lr) ==
    SelectSeq(lr, LAMBDA e : InBand(ScoreOf(scores, e.k), MaxScore(scores, lr)))

\* SortedLyrics without the sort: the surviving items as collected
SortedLyricsAsCollected(lr) ==
    [i \in 1..Len(lr) |-> [key |-> get_rank(lr[i].v), k |-> lr[i].k, v |-> lr[i].v]]

\* lines 146-148: the surviving items, best quality rank first
SortedLyrics(lr) ==
    SortDesc([i \in 1..Len(lr) |-> [key |-> get_rank(lr[i].v), k |-> lr[i].k, v |-> lr[i].v]])

\* lines 150-152: positions <<p, i>> (p in sources, i in the ranked list) of
\* the documents whose source is sources[p]
PriorityHits(srcs, sl) ==
    {h \in (1..Len(srcs)) \X (1..Len(sl)) : Song(sl[h[2]].v.info).source = srcs[h[1]]}

\* FirstHit with the loops exchanged: the best-ranked document of any listed
\* source, whatever its place in `sources`
FirstHitByRank(srcs, sl) ==
    CHOOSE h \in PriorityHits(srcs, sl) :
        \A g \in PriorityHits(srcs, sl) : h[2] < g[2] \/ (h[2] = g[2] /\ h[1] <= g[1])

\* the first hit in loop order
FirstHit(srcs, sl) ==
    CHOOSE h \in PriorityHits(srcs, sl) :
        \A g \in PriorityHits(srcs, sl) : h[1] < g[1] \/ (h[1] = g[1] /\ h[2] <= g[2])

\* line 156: the first key of lyrics_results whose Lyrics equal the winner
InfoKey(lr, lyrics) == lr[CHOOSE i \in 1..Len(lr) : lr[i].v = lyrics /\ \A j \in 1..(i - 1) : lr[j].v # lyrics].k

\* the values of search_results, in dict order
PageValues(sr) == [i \in 1..Len(sr) |-> sr[i].v]

\* lines 158-160
MergedForWinner(sr, key) ==
    (IF DictHas(sr, key) THEN DictGet(sr, key) ELSE <<>>) \o ConcatPages(<<>>, PageValues(sr))

\* Selection whose fallback takes the first document collected instead of
\* the best-ranked one
SelectionFallbackUnranked(srcs, scores, sr, lr, withResults) ==
    LET surv == Survivors(scores, lr)
        sl == SortedLyrics(surv)
    IN  IF PriorityHits(srcs, sl) # {}
        THEN LET lyrics == sl[FirstHit(srcs, sl)[2]].v
             IN  [kind |-> "returned", lyrics |-> lyrics,
                  merged |-> IF withResults THEN MergedForWinner(sr, InfoKey(surv, lyrics)) ELSE <<>>]
        ELSE [kind |-> "returned", lyrics |-> surv[1].v,
              merged |-> IF withResults THEN ConcatPages(<<>>, PageValues(sr)) ELSE <<>>]

\* lines 127-166 after lyrics_results is known not to be empty
Selection(srcs, scores, sr, lr, withResults) ==
    LET surv == Survivors(scores, lr)
        sl == SortedLyrics(surv)
    IN  IF PriorityHits(srcs, sl) # {}
        THEN LET lyrics == sl[FirstHit(srcs, sl)[2]].v
             IN  [kind |-> "returned", lyrics |-> lyrics,
                  merged |-> IF withResults THEN MergedForWinner(sr, InfoKey(surv, lyrics)) ELSE <<>>]
        ELSE [kind |-> "returned", lyrics |-> sl[1].v,
              merged |-> IF withResults THEN ConcatPages(<<>>, PageValues(sr)) ELSE <<>>]

----------------------------------------------------------------------------
(* auto_fetch: the call as a state machine *)

NoGate == [qd |-> 0, cd |-> 0, out |-> "unset"]
NoKw == [resp |-> None, out |-> "unset"]
NoSc == [t |-> 0, a |-> NoScore, al |-> NoScore, st |-> "unset", base |-> 0, score |-> 0]
NoXr == [plain |-> <<>>, sent |-> <<>>, back |-> <<>>, st |-> "unset"]
NoLrc == [tag |-> <<>>, lines |-> <<>>, st |-> "unset", offsets |-> <<>>, out |-> <<>>]
NoApi == [param |-> <<>>, st |-> "idle", futures |-> <<>>, results_by_source |-> <<>>, final_results |-> <<>>]
NoOther == [pc |-> "none"]

\* line 68: executor.submit(search, source, keyword_to_search, SearchType.SONG)
SubmittedSearch(keyword) == [st |-> "running", keyword |-> keyword, res |-> NoPage]
Pending == [kind |-> "pending", lyrics |-> None, merged |-> <<>>]
Raised(e) == [kind |-> e, lyrics |-> None, merged |-> <<>>]

SearchIds == 1..Len(search_tasks)
FetchIds == 1..Len(potential_lyrics_tasks)

Init ==
    /\ \E call \in Calls :
        /\ info = call[1]
        /\ sources = call[2]
        /\ return_search_results = call[3]
    /\ pc = "start"
    /\ keywords = EmptyDict
    /\ search_tasks = <<>>
    /\ completed_searches = {}
    /\ processed = {}
    /\ potential_lyrics_tasks = <<>>
    /\ collected = {}
    /\ songs_score = EmptyDict
    /\ search_results = <<>>
    /\ lyrics_results = <<>>
    /\ errors = <<>>
    /\ result = Pending
    /\ gate = NoGate
    /\ kw = NoKw
    /\ sc = NoSc
    /\ xr = NoXr
    /\ lrc = NoLrc
    /\ api = NoApi
    /\ other = NoOther

\* lines 46-55, the raise
RaiseNotEnoughInfo ==
    /\ pc = "start"
    /\ NotEnoughInfo(info)
    /\ result' = Raised("NotEnoughInfoError")
    /\ pc' = "done"
    /\ UNCHANGED pureVars
    /\ UNCHANGED <<info, sources, return_search_results, keywords, search_tasks,
                   completed_searches, processed, potential_lyrics_tasks, collected,
                   songs_score, search_results, lyrics_results, errors>>

\* lines 46-69: derive the keywords, submit one search per entry of sources
SubmitSearches ==
    /\ pc = "start"
    /\ ~NotEnoughInfo(info)
    /\ keywords' = DeriveKeywords(info)
    /\ search_tasks' = [i \in 1..Len(sources) |-> SubmittedSearch(KeywordToSearch(keywords'))]
    /\ pc' = "wait"
    /\ UNCHANGED pureVars
    /\ UNCHANGED <<info, sources, return_search_results, completed_searches, processed,
                   potential_lyrics_tasks, collected, songs_score, search_results,
                   lyrics_results, errors, result>>

\* a worker finishes search(source, keyword, SearchType.SONG)
SearchFinish(i) ==
    /\ search_tasks[i].st = "running"
    /\ \E page \in SearchOutcomes(sources[i], search_tasks[i].keyword) :
        search_tasks' = [search_tasks EXCEPT ![i] = [@ EXCEPT !.st = "done", !.res = page]]
    /\ UNCHANGED pureVars
    /\ UNCHANGED <<info, sources, return_search_results, pc, keywords, completed_searches,
                   processed, potential_lyrics_tasks, collected, songs_score,
                   search_results, lyrics_results, errors, result>>

DoneSearches == {i \in SearchIds : search_tasks[i].st = "done"}

\* line 72: wait() returns because every search is done
WaitAllCompleted ==
    /\ pc = "wait"
    /\ DoneSearches = SearchIds
    /\ completed_searches' = DoneSearches
    /\ pc' = IF DoneSearches = {} THEN "shutdown" ELSE "process"
    /\ UNCHANGED pureVars
    /\ UNCHANGED <<info, sources, return_search_results, keywords, search_tasks, processed,
                   potential_lyrics_tasks, collected, songs_score, search_results,
                   lyrics_results, errors, result>>

\* line 72: wait() returns because the timeout elapsed
WaitTimeout ==
    /\ pc = "wait"
    /\ DoneSearches # SearchIds
    /\ completed_searches' = DoneSearches
    /\ pc' = IF DoneSearches = {} THEN "shutdown" ELSE "process"
    /\ UNCHANGED pureVars
    /\ UNCHANGED <<info, sources, return_search_results, keywords, search_tasks, processed,
                   potential_lyrics_tasks, collected, songs_score, search_results,
                   lyrics_results, errors, result>>

\* line 110 for each of the top candidates, in order
RECURSIVE PutPages(_, _, _)
PutPages(sr, page, top) ==
    IF top = <<>> THEN sr
    ELSE PutPages(DictPut(sr, Head(top).song, CandidatePage(page, Head(top).song)), page, Tail(top))

\* line 109 for each of the top candidates, in order
PutScores(scores, top) ==
    [c \in DOMAIN scores \cup {top[j].song : j \in 1..Len(top)} |->
        IF \E j \in 1..Len(top) : top[j].song = c
        THEN top[CHOOSE j \in 1..Len(top) :
                    top[j].song = c /\ \A m \in (j + 1)..Len(top) : top[m].song # c].key
        ELSE scores[c]]

\* lines 111-112 for each of the top candidates, in order
NewFetchTasks(i, top) ==
    [j \in 1..Len(top) |-> [song |-> top[j].song, from |-> i, st |-> "running", res |-> NoLyrics]]

\* ToProcess over every search that is done by now, not over the set wait()
\* returned
ToProcessAllDone(done) == DoneSearches \ done

\* line 76: the futures the loop has still to visit
ToProcess(done) == completed_searches \ done

\* where the call stands once a search future has been handled
AfterProcess(done, tasks) ==
    IF ToProcess(done) # {} THEN "process"
    ELSE IF tasks = <<>> THEN "shutdown" ELSE "collect"

\* lines 76-115, one iteration: the orchestrating call handles one completed
\* search future (completed_searches is a set: any order)
ProcessSearch(i) ==
    /\ pc = "process"
    /\ i \in ToProcess(processed)
    /\ processed' = processed \cup {i}
    /\ LET page == search_tasks[i].res
           top == TopCandidates(ResultScore(info, keywords, page))
       IN  IF page.kind = "raised"
           THEN /\ errors' = Append(errors, "search")
                /\ UNCHANGED <<songs_score, search_results, potential_lyrics_tasks>>
           ELSE IF page.kind = "none" \/ page.items = <<>>
           THEN UNCHANGED <<errors, songs_score, search_results, potential_lyrics_tasks>>
           ELSE IF ScoringRaises(info, keywords, page)
           THEN /\ errors' = Append(errors, "KeyError")
                /\ UNCHANGED <<songs_score, search_results, potential_lyrics_tasks>>
           ELSE /\ songs_score' = PutScores(songs_score, top)
                /\ search_results' = PutPages(search_results, page, top)
                /\ potential_lyrics_tasks' = potential_lyrics_tasks \o NewFetchTasks(i, top)
                /\ UNCHANGED errors
    /\ pc' = AfterProcess(processed', potential_lyrics_tasks')
    /\ UNCHANGED pureVars
    /\ UNCHANGED <<info, sources, return_search_results, keywords, search_tasks,
                   completed_searches, collected, lyrics_results, result>>

\* a worker finishes get_lyrics(song_candidate); the pool (at least 5
\* workers) is never exhausted by the at most Len(sources) + 2 tasks that run
\* at a time here, so a submitted task runs at once
FetchFinish(t) ==
    /\ potential_lyrics_tasks[t].st = "running"
    /\ \E out \in FetchOutcomes(potential_lyrics_tasks[t].song) :
        potential_lyrics_tasks' =
            [potential_lyrics_tasks EXCEPT ![t] = [@ EXCEPT !.st = "done", !.res = out]]
    /\ UNCHANGED pureVars
    /\ UNCHANGED <<info, sources, return_search_results, pc, keywords, search_tasks,
                   completed_searches, processed, collected, songs_score, search_results,
                   lyrics_results, errors, result>>

\* CollectLyrics that leaves the loop at the first document
CollectLyricsUntilFirst(t) ==
    /\ pc = "collect"
    /\ t \in FetchIds \ collected
    /\ potential_lyrics_tasks[t].st = "done"
    /\ collected' = collected \cup {t}
    /\ LET task == potential_lyrics_tasks[t]
       IN  /\ lyrics_results' =
                IF task.res.kind = "lyrics"
                THEN DictPut(lyrics_results, task.song, LyricsOf(task.res.song))
                ELSE lyrics_results
           /\ errors' = IF task.res.kind = "raised" THEN Append(errors, "fetch") ELSE errors
           /\ pc' = IF collected' = FetchIds \/ task.res.kind = "lyrics"
                    THEN "shutdown" ELSE "collect"
    /\ UNCHANGED pureVars
    /\ UNCHANGED <<info, sources, return_search_results, keywords, search_tasks,
                   completed_searches, processed, potential_lyrics_tasks, songs_score,
                   search_results, result>>

\* lines 118-125, one iteration: as_completed yields a finished fetch future
CollectLyrics(t) ==
    /\ pc = "collect"
    /\ t \in FetchIds \ collected
    /\ potential_lyrics_tasks[t].st = "done"
    /\ collected' = collected \cup {t}
    /\ LET task == potential_lyrics_tasks[t]
       IN  /\ lyrics_results' =
                IF task.res.kind = "lyrics"
                THEN DictPut(lyrics_results, task.song, LyricsOf(task.res.song))
                ELSE lyrics_results
           /\ errors' = IF task.res.kind = "raised" THEN Append(errors, "fetch") ELSE errors
    /\ pc' = IF collected' = FetchIds THEN "shutdown" ELSE "collect"
    /\ UNCHANGED pureVars
    /\ UNCHANGED <<info, sources, return_search_results, keywords, search_tasks,
                   completed_searches, processed, potential_lyrics_tasks, songs_score,
                   search_results, result>>

\* line 62, leaving the with block: ThreadPoolExecutor.__exit__ is
\* shutdown(wait=True), which returns when every submitted task has finished
ExitExecutor ==
    /\ pc = "shutdown"
    /\ \A i \in SearchIds : search_tasks[i].st = "done"
    /\ \A t \in FetchIds : potential_lyrics_tasks[t].st = "done"
    /\ pc' = "select"
    /\ UNCHANGED pureVars
    /\ UNCHANGED <<info, sources, return_search_results, keywords, search_tasks,
                   completed_searches, processed, potential_lyrics_tasks, collected,
                   songs_score, search_results, lyrics_results, errors, result>>

\* RaiseNotFound that also gives up when an error was collected
RaiseNotFoundOnError ==
    /\ pc = "select"
    /\ lyrics_results = <<>> \/ errors # <<>>
    /\ result' = Raised("LyricsNotFoundError")
    /\ pc' = "done"
    /\ UNCHANGED pureVars
    /\ UNCHANGED <<info, sources, return_search_results, keywords, search_tasks,
                   completed_searches, processed, potential_lyrics_tasks, collected,
                   songs_score, search_results, lyrics_results, errors>>

\* lines 127-130
RaiseNotFound ==
    /\ pc = "select"
    /\ lyrics_results = <<>>
    /\ result' = Raised("LyricsNotFoundError")
    /\ pc' = "done"
    /\ UNCHANGED pureVars
    /\ UNCHANGED <<info, sources, return_search_results, keywords, search_tasks,
                   completed_searches, processed, potential_lyrics_tasks, collected,
                   songs_score, search_results, lyrics_results, errors>>

\* lines 132-166
ReturnLyrics ==
    /\ pc = "select"
    /\ lyrics_results # <<>>
    /\ lyrics_results' = Survivors(songs_score, lyrics_results)
    /\ result' = Selection(sources, songs_score, search_results, lyrics_results,
                           return_search_results)
    /\ pc' = "done"
    /\ UNCHANGED pureVars
    /\ UNCHANGED <<info, sources, return_search_results, keywords, search_tasks,
                   completed_searches, processed, potential_lyrics_tasks, collected,
                   songs_score, search_results, errors>>

Next ==
    \/ RaiseNotEnoughInfo
    \/ SubmitSearches
    \/ \E i \in SearchIds : SearchFinish(i)
    \/ WaitAllCompleted
    \/ WaitTimeout
    \/ \E i \in SearchIds : ProcessSearch(i)
    \/ \E t \in FetchIds : FetchFinish(t)
    \/ \E t \in FetchIds : CollectLyrics(t)
    \/ ExitExecutor
    \/ RaiseNotFound
    \/ ReturnLyrics

Spec == Init /\ [][Next]_vars

----------------------------------------------------------------------------
(* The duration gate on its own *)

QueryDurations == {0, 1, 3992, 3993, 4000, 200000, 204000, 204001}
SongDurations == {0, 1, 4001, 196000, 200000, 204000, 204001, 205000}

\* no auto_fetch call is running
ResolverIdle ==
    /\ info = TitledInfo
    /\ sources = <<>>
    /\ return_search_results = FALSE
    /\ pc = "idle"
    /\ keywords = EmptyDict
    /\ search_tasks = <<>>
    /\ completed_searches = {}
    /\ processed = {}
    /\ potential_lyrics_tasks = <<>>
    /\ collected = {}
    /\ songs_score = EmptyDict
    /\ search_results = <<>>
    /\ lyrics_results = <<>>
    /\ errors = <<>>
    /\ result = Pending

resolverVars == <<info, sources, return_search_results, pc, keywords, search_tasks,
                  completed_searches, processed, potential_lyrics_tasks, collected,
                  songs_score, search_results, lyrics_results, errors, result>>

InitGate ==
    /\ ResolverIdle
    /\ api = NoApi
    /\ other = NoOther
    /\ kw = NoKw
    /\ sc = NoSc
    /\ xr = NoXr
    /\ lrc = NoLrc
    /\ \E qd \in QueryDurations, cd \in SongDurations : gate = [qd |-> qd, cd |-> cd, out |-> "unset"]

\* line 84 for one row
ApplyGate ==
    /\ gate.out = "unset"
    /\ gate' = [gate EXCEPT !.out = IF DurationGate(gate.qd, gate.cd) THEN "skipped" ELSE "kept"]
    /\ UNCHANGED <<resolverVars, api, other, kw, sc, xr, lrc>>

NextGate == ApplyGate

SpecGate == InitGate /\ [][NextGate]_vars

----------------------------------------------------------------------------
(* The structured score on its own *)

\* title, artist and album similarities, 0..100
ScoreValues == {0, 1, 15, 29, 30, 31, 50, 70, 99, 100}

InitScore ==
    /\ ResolverIdle
    /\ api = NoApi
    /\ other = NoOther
    /\ gate = NoGate
    /\ kw = NoKw
    /\ xr = NoXr
    /\ lrc = NoLrc
    /\ \E t \in ScoreValues, a \in ScoreValues \cup {NoScore}, al \in ScoreValues \cup {NoScore} :
           sc = [NoSc EXCEPT !.t = t, !.a = a, !.al = al]

\* lines 91-97 for one row: the score before the penalty and the final score
ApplyScore ==
    /\ sc.st = "unset"
    /\ sc' = [sc EXCEPT !.st = "scored",
                         !.base = CompositeScore(sc.t, sc.a, sc.al),
                         !.score = StructuredScore(sc.t, sc.a, sc.al)]
    /\ UNCHANGED <<resolverVars, api, other, gate, kw, xr, lrc>>

NextScore == ApplyScore

SpecScore == InitScore /\ [][NextScore]_vars

----------------------------------------------------------------------------
(* The Kuwo cipher on its own *)

\* KEY = b"yeelion"
KEY == <<121, 101, 101, 108, 105, 111, 110>>

\* a ^ b on non-negative integers
RECURSIVE BitXor(_, _)
BitXor(a, b) ==
    IF a = 0 /\ b = 0 THEN 0
    ELSE (((a % 2) + (b % 2)) % 2) + 2 * BitXor(a \div 2, b \div 2)

\* the byte values the sequences are drawn from
CipherBytes == {0, 110, 255}

ByteSeqs == UNION {[1..n -> CipherBytes] : n \in 0..MaxBytes}

\* _build_params, lines 119-126: output[i] = buf_str[i] ^ KEY[i % key_len]
\* (Python indexes from 0, sequences here from 1)
XorBuildParams(buf) ==
    [i \in 1..Len(buf) |-> BitXor(buf[i], KEY[((i - 1) % Len(KEY)) + 1])]

\* XorDecodeLyrics with the key index taken from the 1-based position
XorDecodeLyricsShifted(buf) ==
    [i \in 1..Len(buf) |-> BitXor(buf[i], KEY[(i % Len(KEY)) + 1])]

\* _decode_lyrics, lines 147-153: output[i] = buf_str[i] ^ KEY[i % key_len]
XorDecodeLyrics(buf) ==
    [i \in 1..Len(buf) |-> BitXor(buf[i], KEY[((i - 1) % Len(KEY)) + 1])]

InitXor ==
    /\ ResolverIdle
    /\ api = NoApi
    /\ other = NoOther
    /\ gate = NoGate
    /\ kw = NoKw
    /\ sc = NoSc
    /\ lrc = NoLrc
    /\ \E x \in ByteSeqs : xr = [NoXr EXCEPT !.plain = x]

\* the loop of _build_params over the bytes
XorEncrypt ==
    /\ xr.st = "unset"
    /\ xr' = [xr EXCEPT !.st = "sent", !.sent = XorBuildParams(xr.plain)]
    /\ UNCHANGED <<resolverVars, api, other, gate, kw, sc, lrc>>

\* the loop of _decode_lyrics over what the other loop produced
XorDecrypt ==
    /\ xr.st = "sent"
    /\ xr' = [xr EXCEPT !.st = "back", !.back = XorDecodeLyrics(xr.sent)]
    /\ UNCHANGED <<resolverVars, api, other, gate, kw, sc, lrc>>

NextXor == XorEncrypt \/ XorDecrypt

SpecXor == InitXor /\ [][NextXor]_vars

----------------------------------------------------------------------------
(* The Kuwo adapter: get_lyrics for one song, over every server response *)

TagDigits == {0, 1, 7, 8}

\* the digits of a [kuwo:<digits>] tag; <<>> when the text has no tag
Tags == UNION {[1..n -> TagDigits] : n \in 0..MaxTagLen}

\* the decoded lyric text: empty, only lines the conversion drops, or lines
\* the conversion emits
Texts == {[body |-> "empty", tag |-> <<>>]}
         \cup [body : {"filler", "lines"}, tag : Tags]

\* The server's answer to one lyric request. The inflated body is base64
\* text with ndata alphabet characters followed by npad "=".
KwResponses ==
    [id : {"", "abc", "123"}, http : {"error", "ok"},
     marker : BOOLEAN, sep : BOOLEAN, deflate : BOOLEAN,
     ndata : 0..4, npad : 0..2, text : Texts]

\* base64.b64decode (line 146): the number of bytes, or -1 for binascii.Error
B64Decode(ndata, npad) ==
    IF ndata % 4 = 0 THEN 3 * (ndata \div 4)
    ELSE IF ndata % 4 = 2 /\ npad >= 2 THEN 3 * (ndata \div 4) + 1
    ELSE IF ndata % 4 = 3 /\ npad >= 1 THEN 3 * (ndata \div 4) + 2
    ELSE -1

\* int(digits, 8) (line 165) raises ValueError
OctalRaises(digits) == \E i \in 1..Len(digits) : digits[i] > 7

\* OctalValue reading the digits in base 10
RECURSIVE OctalValueBase10(_)
OctalValueBase10(digits) ==
    IF digits = <<>> THEN 0
    ELSE 10 * OctalValueBase10(SubSeq(digits, 1, Len(digits) - 1)) + digits[Len(digits)]

\* int(digits, 8), line 165
RECURSIVE OctalValue(_)
OctalValue(digits) ==
    IF digits = <<>> THEN 0
    ELSE 8 * OctalValue(SubSeq(digits, 1, Len(digits) - 1)) + digits[Len(digits)]

\* lines 160-170: <<kuwo_offset, kuwo_offset2>>
KuwoOffsets(tag) ==
    IF tag = <<>> THEN <<1, 1>>
    ELSE IF OctalValue(tag) \div 10 = 0 \/ OctalValue(tag) % 10 = 0 THEN <<1, 1>>
    ELSE <<OctalValue(tag) \div 10, OctalValue(tag) % 10>>

\* _decode_lyrics (lines 131-155): "" | "text" | "binascii.Error"
DecodeLyrics(r) ==
    IF ~r.marker THEN ""
    ELSE IF ~r.sep \/ ~r.deflate THEN ""
    ELSE IF B64Decode(r.ndata, r.npad) = -1 THEN "binascii.Error"
    ELSE IF B64Decode(r.ndata, r.npad) = 0 \/ r.text.body = "empty" THEN ""
    ELSE "text"

\* _convert_kuwo_lrc (lines 158-245): "" | "lrc" | "ValueError"
ConvertKuwoLrc(text) ==
    IF text.tag # <<>> /\ OctalRaises(text.tag) THEN "ValueError"
    ELSE IF text.body = "filler" /\ text.tag = <<>> THEN ""
    ELSE "lrc"

\* _fetch_and_convert_kuwo_lrc (lines 248-265): "None" | "lrc" | an exception
FetchAndConvert(r) ==
    IF r.http = "error" THEN "None"
    ELSE IF DecodeLyrics(r) = "" THEN "None"
    ELSE IF DecodeLyrics(r) = "binascii.Error" THEN "binascii.Error"
    ELSE IF ConvertKuwoLrc(r.text) = "" THEN "None"
    ELSE ConvertKuwoLrc(r.text)

\* get_lyrics (lines 75-98): "None" | "Lyrics" | an exception
KwGetLyrics(r) ==
    IF r.id = "" THEN "None"
    ELSE IF r.id = "abc" THEN "None"
    ELSE IF FetchAndConvert(r) = "lrc" THEN "Lyrics"
    ELSE FetchAndConvert(r)

InitKw ==
    /\ ResolverIdle
    /\ api = NoApi
    /\ other = NoOther
    /\ gate = NoGate
    /\ sc = NoSc
    /\ xr = NoXr
    /\ lrc = NoLrc
    /\ \E r \in KwResponses : kw = [resp |-> r, out |-> "unset"]

\* one call of get_lyrics
KwCall ==
    /\ kw.out = "unset"
    /\ kw' = [kw EXCEPT !.out = KwGetLyrics(kw.resp)]
    /\ UNCHANGED <<resolverVars, api, other, gate, sc, xr, lrc>>

NextKw == KwCall

SpecKw == InitKw /\ [][NextKw]_vars

----------------------------------------------------------------------------
(* The Kuwo adapter: _convert_kuwo_lrc over the lines of a decoded text *)

\* A line's content is a sequence of pieces: a word token <a,b> or a run of
\* text without "<".
Tok(a, b) == [p |-> "tok", a |-> a, b |-> b, s |-> ""]
Str(text) == [p |-> "str", a |-> 0, b |-> 0, s |-> text]

\* a "[mm:ss.mmm]" stamp as its three numbers; NoTime is the empty string
\* in the place of a stamp
NoTime == [m |-> -1, s |-> -1, ms |-> -1]
Stamp(m, sec, ms) == [m |-> m, s |-> sec, ms |-> ms]

\* characters of [\u4e00-\u9fa5] occur in these texts only
CJK == {"zh1", "zh2", "zh3", "zh4", "zh5", "zh6", "zh7"}
Blank(text) == text \in {"", " "}

\* a line matched by line_time_regex (line 172), and any other line
Timed(time, content) == [timed |-> TRUE, time |-> time, content |-> content]
Plain(text) == [timed |-> FALSE, time |-> NoTime, content |-> <<Str(text)>>]

\* the piece is the text "<0,0>"
IsMarker(x) == x.p = "tok" /\ x.a = 0 /\ x.b = 0

\* re.sub(r'<0,0>', '', content), lines 188 and 226
RemoveMarkers(content) == SelectSeq(content, LAMBDA x : ~IsMarker(x))

\* IsFiller that does not remove the markers first
IsFillerUnstripped(content) ==
    \A i \in 1..Len(content) : content[i].p = "str" /\ Blank(content[i].s)

\* line 188: re.sub(r'<0,0>', '', content).strip() == ''
IsFiller(content) ==
    \A i \in 1..Len(RemoveMarkers(content)) :
        RemoveMarkers(content)[i].p = "str" /\ Blank(RemoveMarkers(content)[i].s)

\* lines 196 and 225: content.startswith('<0,0>') and translation_regex.search(content)
IsTranslation(content) ==
    /\ content # <<>> /\ IsMarker(content[1])
    /\ \E i \in 1..Len(content) : content[i].p = "str" /\ content[i].s \in CJK

\* line 200: word_regex.finditer(content): each token with the text up to
\* the next "<"
RECURSIVE Matches(_)
Matches(content) ==
    IF content = <<>> THEN <<>>
    ELSE IF Head(content).p = "tok"
         THEN <<[a |-> Head(content).a, b |-> Head(content).b,
                 text |-> IF Len(content) > 1 /\ content[2].p = "str" THEN content[2].s ELSE ""]>>
              \o Matches(Tail(content))
         ELSE Matches(Tail(content))

\* line 194
LineStartMs(time) == time.m * 60000 + time.s * 1000 + time.ms

\* _format_time (lines 105-111) of a time whose whole milliseconds are ms:
\* the three int() truncations drop the fraction of the float
FormatTime(ms) ==
    LET t == IF ms < 0 THEN 0 ELSE ms
    IN  Stamp(t \div 60000, (t % 60000) \div 1000, t % 1000)

\* WordTimeMs without the abs()
WordTimeMsSigned(start, a, b, offs) == start + ((a + b) \div (offs[1] * 2))

\* lines 203-204: whole milliseconds of
\* line_start_time_ms + abs((offset + offset2) / (kuwo_offset * 2))
WordTimeMs(start, a, b, offs) == start + (Abs(a + b) \div (offs[1] * 2))

\* lines 214-217: whole milliseconds of line start + word start + word
\* duration, the two quotients added as exact fractions
EndTimeMs(start, a, b, offs) ==
    start + ((Abs(a + b) * offs[2] + Abs(a - b) * offs[1]) \div (2 * offs[1] * offs[2]))

\* NewContent with a stamp before the first text as well
NewContentAllStamped(start, ms, offs) ==
    [j \in 1..Len(ms) |->
        [ts |-> FormatTime(WordTimeMs(start, ms[j].a, ms[j].b, offs)), text |-> ms[j].text]]

\* lines 199-209: new_content as (stamp, text) pairs; the first text has no
\* stamp
NewContent(start, ms, offs) ==
    [j \in 1..Len(ms) |->
        [ts |-> IF j = 1 THEN NoTime ELSE FormatTime(WordTimeMs(start, ms[j].a, ms[j].b, offs)),
         text |-> ms[j].text]]

\* CalculatedEnd with the line's start as the end of a line without tokens
CalculatedEndOrStart(start, ms, offs) ==
    IF ms = <<>> THEN FormatTime(start)
    ELSE FormatTime(EndTimeMs(start, ms[Len(ms)].a, ms[Len(ms)].b, offs))

\* lines 211-218
CalculatedEnd(start, ms, offs) ==
    IF ms = <<>> THEN NoTime
    ELSE FormatTime(EndTimeMs(start, ms[Len(ms)].a, ms[Len(ms)].b, offs))

\* lines 228-232: the stamp of the first line from position j on that
\* line_time_regex matches
RECURSIVE FutureStamp(_, _)
FutureStamp(lines, j) ==
    IF j > Len(lines) THEN NoTime
    ELSE IF lines[j].timed THEN lines[j].time
    ELSE FutureStamp(lines, j + 1)

\* one entry of processed_lrc: a line that is not timed (line 183, text), a
\* converted line (line 239, words) or a translation (line 241, text)
OutLine(time, words, text, end) == [time |-> time, words |-> words, text |-> text, end |-> end]

\* line 225: the line after position i is a translation line
TranslationFollows(lines, i) ==
    /\ i + 1 <= Len(lines)
    /\ lines[i + 1].timed
    /\ IsTranslation(lines[i + 1].content)

\* MainLines giving the translation its own stamp instead of the stamp of
\* the line it follows
MainLinesOwnStamp(lines, i, offs) ==
    LET line == lines[i]
        start == LineStartMs(line.time)
        ms == Matches(line.content)
        end == CalculatedEnd(start, ms, offs)
        future == FutureStamp(lines, i + 2)
    IN  <<OutLine(line.time, NewContent(start, ms, offs), <<>>, end)>>
        \o (IF TranslationFollows(lines, i)
            THEN <<OutLine(lines[i + 1].time, <<>>, RemoveMarkers(lines[i + 1].content),
                           IF future # NoTime THEN future ELSE end)>>
            ELSE <<>>)

\* lines 198-241 for the line at position i, neither filler nor translation
MainLines(lines, i, offs) ==
    LET line == lines[i]
        start == LineStartMs(line.time)
        ms == Matches(line.content)
        end == CalculatedEnd(start, ms, offs)
        future == FutureStamp(lines, i + 2)
    IN  <<OutLine(line.time, NewContent(start, ms, offs), <<>>, end)>>
        \o (IF TranslationFollows(lines, i)
            THEN <<OutLine(line.time, <<>>, RemoveMarkers(lines[i + 1].content),
                           IF future # NoTime THEN future ELSE end)>>
            ELSE <<>>)

\* TranslationSkipped only for a translation line that has a line before it
TranslationSkippedAfterFirst(lines, i) == i > 1 /\ IsTranslation(lines[i].content)

\* lines 196-198 and 243: a translation line the loop arrives at is passed
\* over
TranslationSkipped(lines, i) == IsTranslation(lines[i].content)

\* lines 176-243: the while loop from position i on
RECURSIVE ConvertFrom(_, _, _)
ConvertFrom(lines, i, offs) ==
    IF i > Len(lines) THEN <<>>
    ELSE IF ~lines[i].timed
         THEN <<OutLine(NoTime, <<>>, lines[i].content, NoTime)>> \o ConvertFrom(lines, i + 1, offs)
    ELSE IF IsFiller(lines[i].content) THEN ConvertFrom(lines, i + 1, offs)
    ELSE IF TranslationSkipped(lines, i) THEN ConvertFrom(lines, i + 1, offs)
    ELSE MainLines(lines, i, offs)
         \o ConvertFrom(lines, IF TranslationFollows(lines, i) THEN i + 2 ELSE i + 1, offs)

\* _convert_kuwo_lrc (lines 158-245) of a text with these lines whose first
\* [kuwo:] tag has these digits
convert_kuwo_lrc(tag, lines) ==
    IF tag # <<>> /\ OctalRaises(tag)
    THEN [st |-> "ValueError", offsets |-> <<>>, out |-> <<>>]
    ELSE [st |-> "converted", offsets |-> KuwoOffsets(tag),
          out |-> ConvertFrom(lines, 1, KuwoOffsets(tag))]

\* The lines the texts are made of; the n-th line of a text starts at second n.
LineKinds == {"plain", "filler", "blank", "words", "bare", "lead", "translation", "zhwords"}

\* the text of a translation line, one per position
ZhText(n) ==
    CASE n = 1 -> "zh2" [] n = 2 -> "zh1" [] n = 3 -> "zh3" [] n = 4 -> "zh4" [] OTHER -> "zh5"

LineOfKind(kind, n) ==
    CASE kind = "plain" -> Plain("[ti:x]")
      [] kind = "filler" -> Timed(Stamp(0, n, 0), <<Tok(0, 0)>>)
      [] kind = "blank" -> Timed(Stamp(0, n, 0), <<Str(" ")>>)
      [] kind = "words" -> Timed(Stamp(0, n, 0), <<Tok(0, 100), Str("la"), Tok(100, 200), Str("li")>>)
      [] kind = "bare" -> Timed(Stamp(0, n, 0), <<Str("la")>>)
      [] kind = "lead" -> Timed(Stamp(0, n, 0), <<Str("pre"), Tok(0, 100), Str("la")>>)
      [] kind = "translation" -> Timed(Stamp(0, n, 0), <<Tok(0, 0), Str(ZhText(n))>>)
      [] kind = "zhwords" -> Timed(Stamp(0, n, 0), <<Tok(0, 100), Str("zh6"), Tok(100, 200), Str("zh7")>>)

LinesOfKinds(kinds) == [n \in 1..Len(kinds) |-> LineOfKind(kinds[n], n)]

\* texts of every shape, without a tag
ShapeTexts ==
    {[tag |-> <<>>, lines |-> LinesOfKinds(kinds)] :
        kinds \in UNION {[1..n -> LineKinds] : n \in 0..MaxLines}}

\* one line of word tokens with every combination of offsets, under three
\* pairs of scales
TokenOffsets == {0, 100, -250}

TokensContent(toks) ==
    [n \in 1..(2 * Len(toks)) |->
        IF n % 2 = 1 THEN Tok(toks[(n + 1) \div 2][1], toks[(n + 1) \div 2][2])
        ELSE Str(IF n = 2 THEN "la" ELSE IF n = 4 THEN "li" ELSE "lu")]

TimingTexts ==
    {[tag |-> tag, lines |-> <<Timed(Stamp(0, 59, 950), TokensContent(toks))>>] :
        tag \in {<<>>, <<1, 7>>, <<7, 7>>},
        toks \in UNION {[1..n -> TokenOffsets \X TokenOffsets] : n \in 0..MaxToks}}

\* one text under every tag
TagTexts ==
    {[tag |-> tag,
      lines |-> <<Plain("[kuwo:]"), Timed(Stamp(0, 1, 0), <<Tok(10, 30), Str("la"), Tok(100, 100), Str("li")>>)>>] :
        tag \in Tags}

InitLrc ==
    /\ ResolverIdle
    /\ api = NoApi
    /\ other = NoOther
    /\ gate = NoGate
    /\ kw = NoKw
    /\ sc = NoSc
    /\ xr = NoXr
    /\ \E text \in ShapeTexts \cup TimingTexts \cup TagTexts :
           lrc = [NoLrc EXCEPT !.tag = text.tag, !.lines = text.lines]

\* one call of _convert_kuwo_lrc
LrcConvert ==
    /\ lrc.st = "unset"
    /\ lrc' = [lrc EXCEPT !.st = convert_kuwo_lrc(lrc.tag, lrc.lines).st,
                           !.offsets = convert_kuwo_lrc(lrc.tag, lrc.lines).offsets,
                           !.out = convert_kuwo_lrc(lrc.tag, lrc.lines).out]
    /\ UNCHANGED <<resolverVars, api, other, gate, kw, sc, xr>>

NextLrc == LrcConvert

SpecLrc == InitLrc /\ [][NextLrc]_vars

----------------------------------------------------------------------------
(* Properties of the duration gate and of the Kuwo adapter *)

\* C6: the duration gate discards a row if and only if both durations are
\* known and differ by more than 4000 ms; a row of unknown duration is never
\* discarded.
C6_GateOnlyOnKnownDurations ==
    gate.out # "unset" =>
        (gate.out = "skipped"
            <=> (gate.qd # 0 /\ gate.cd # 0 /\ Abs(gate.qd - gate.cd) > 4000))

\* the payloads C8 lists
BadPayload(r) ==
    \/ ~r.marker
    \/ ~r.sep
    \/ ~r.deflate
    \/ B64Decode(r.ndata, r.npad) = -1
    \/ \E i \in 1..Len(r.text.tag) : r.text.tag[i] \in {8, 9}

\* C8: Kuwo get_lyrics returns None and never raises, whatever the server
\* answers: no marker, no CR LF CR LF, undecompressable body, invalid base64,
\* or a [kuwo:] tag with a digit 8 or 9.
C8_KwAbsentOnBadPayload ==
    (kw.out # "unset" /\ BadPayload(kw.resp)) => kw.out = "None"

----------------------------------------------------------------------------
(* Properties of the structured score *)

\* C11: for title, artist and album scores in 0..100 (artist and album
\* possibly absent) the final structured score lies in [0, 100], and when
\* the title score is below 30 it is max(0, composite - 35), composite being
\* the weighted score before the penalty.
C11_ScoreFlooredInRange ==
    sc.st = "scored" =>
        /\ sc.score >= 0
        /\ sc.score <= 10000
        /\ sc.t < 30 => sc.score = (IF sc.base - 3500 > 0 THEN sc.base - 3500 ELSE 0)

\* C11 witness: a title score of 29 whose composite is below 35, so that the
\* floor at 0 is what keeps the score from being negative.
C11_Witness ==
    /\ sc.st = "scored"
    /\ sc.t = 29
    /\ sc.base < 3500
    /\ sc.score = 0

\* C12: without an artist score and with an album score, an album score of 0
\* included, the composite is max(0.7 title + 0.3 album, 0.8 title).
C12_AlbumOnlyComposite ==
    (sc.st = "scored" /\ sc.a = -1 /\ sc.al # -1) =>
        sc.base = (IF 70 * sc.t + 30 * sc.al >= 80 * sc.t
                       THEN 70 * sc.t + 30 * sc.al ELSE 80 * sc.t)

----------------------------------------------------------------------------
(* Properties of _convert_kuwo_lrc *)

Converted == lrc.st = "converted"

\* the digits read as a number in base 8
RECURSIVE Base8(_, _)
Base8(digits, acc) ==
    IF digits = <<>> THEN acc ELSE Base8(Tail(digits), 8 * acc + Head(digits))

\* C16: a tag of octal digits is parsed in base 8; the scales are value
\* div 10 and value mod 10 unless one of them is zero, and then both are 1
\* ([kuwo:010] is 8: 0 and 8, so both are 1); no scale is ever zero, so the
\* timing computation never divides by zero.
C16_ScalesNeverZero ==
    /\ (lrc.st # "unset" /\ \A i \in 1..Len(lrc.tag) : lrc.tag[i] <= 7) => Converted
    /\ Converted =>
           LET v == Base8(lrc.tag, 0)
           IN  /\ lrc.offsets[1] # 0 /\ lrc.offsets[2] # 0
               /\ lrc.tag # <<>> =>
                      lrc.offsets = (IF v \div 10 = 0 \/ v % 10 = 0
                                     THEN <<1, 1>> ELSE <<v \div 10, v % 10>>)

\* C16 witness: [kuwo:010]
C16_Witness ==
    /\ Converted
    /\ lrc.tag = <<0, 1, 0>>
    /\ lrc.offsets = <<1, 1>>
    /\ lrc.out # <<>>

\* a stamp in milliseconds
TimeValue(ts) == ts.m * 60000 + ts.s * 1000 + ts.ms

\* the stamps of an emitted line in reading order: the line's start, the
\* stamps before the second and later words, the trailing stamp
OutStamps(o) ==
    <<TimeValue(o.time)>>
    \o [j \in 1..(Len(o.words) - 1) |-> TimeValue(o.words[j + 1].ts)]
    \o <<TimeValue(o.end)>>

NonDecreasing(seq) == \A j \in 1..(Len(seq) - 1) : seq[j] <= seq[j + 1]

\* the word tokens of the input line an emitted line of words comes from
\* (no two lines of a text start at the same time)
TokensOf(o) ==
    SelectSeq(lrc.lines[CHOOSE n \in 1..Len(lrc.lines) : lrc.lines[n].time = o.time].content,
              LAMBDA x : x.p = "tok")

\* |a + b| does not decrease from one token to the next, from the second
\* token on
OrderedFromSecond(toks) ==
    \A j \in 2..(Len(toks) - 1) :
        Abs(toks[j].a + toks[j].b) <= Abs(toks[j + 1].a + toks[j + 1].b)

\* C17 as stated: in every emitted timed line the start stamp, the stamps
\* before the second and later tokens and the trailing stamp are
\* non-decreasing, whatever the token offsets and scales.
C17_MonotonicForAllOffsets ==
    Converted =>
        \A k \in 1..Len(lrc.out) :
            lrc.out[k].words # <<>> => NonDecreasing(OutStamps(lrc.out[k]))

\* C17 amended: the stamps are non-decreasing when |a + b| does not decrease
\* from one token to the next among the second and later tokens.
C17_MonotonicForOrderedTokens ==
    Converted =>
        \A k \in 1..Len(lrc.out) :
            (lrc.out[k].words # <<>> /\ OrderedFromSecond(TokensOf(lrc.out[k])))
                => NonDecreasing(OutStamps(lrc.out[k]))

\* C17 witness: three tokens under the scales of [kuwo:17], the stamps
\* strictly increasing from 00:59.950 into the next minute.
C17_Witness ==
    /\ Converted
    /\ lrc.offsets = <<1, 5>>
    /\ \E k \in 1..Len(lrc.out) :
           /\ Len(lrc.out[k].words) = 3
           /\ OrderedFromSecond(TokensOf(lrc.out[k]))
           /\ OutStamps(lrc.out[k]) = <<59950, 60000, 60075, 60100>>

LineIds == 1..Len(lrc.lines)
OutIds == 1..Len(lrc.out)

\* the content without its <0,0> markers
WithoutMarkers(content) ==
    SelectSeq(content, LAMBDA x : ~(x.p = "tok" /\ x.a = 0 /\ x.b = 0))

\* a timed line with nothing but <0,0> markers and white space
FillerLine(n) ==
    /\ lrc.lines[n].timed
    /\ \A i \in 1..Len(WithoutMarkers(lrc.lines[n].content)) :
           /\ WithoutMarkers(lrc.lines[n].content)[i].p = "str"
           /\ WithoutMarkers(lrc.lines[n].content)[i].s \in {"", " "}

\* a timed line that starts with <0,0> and has a CJK character
TranslationLine(n) ==
    /\ lrc.lines[n].timed
    /\ lrc.lines[n].content # <<>>
    /\ lrc.lines[n].content[1] = Tok(0, 0)
    /\ \E i \in 1..Len(lrc.lines[n].content) : lrc.lines[n].content[i].s \in CJK

\* the translation line n comes out once, right after the output of line
\* n - 1, with that line's start stamp and its own text without <0,0>, and
\* nowhere else
MergedAfterPrevious(n) ==
    /\ \E k \in OutIds \ {1} :
           /\ lrc.out[k - 1].time = lrc.lines[n - 1].time
           /\ lrc.out[k - 1].text = <<>>
           /\ lrc.out[k].time = lrc.lines[n - 1].time
           /\ lrc.out[k].words = <<>>
           /\ lrc.out[k].text = WithoutMarkers(lrc.lines[n].content)
    /\ Cardinality({k \in OutIds : lrc.out[k].time = lrc.lines[n - 1].time}) = 2
    /\ \A k \in OutIds : lrc.out[k].time # lrc.lines[n].time

\* C18 as stated: a translation line that immediately follows a timed line
\* that is not a translation line is merged after that line's output and
\* not emitted on its own.
C18_MergedAfterAnyTimedLine ==
    Converted =>
        \A n \in LineIds \ {1} :
            (TranslationLine(n) /\ lrc.lines[n - 1].timed /\ ~TranslationLine(n - 1))
                => MergedAfterPrevious(n)

\* C18 amended: the same for a translation line that immediately follows a
\* timed line that is neither a translation line nor a filler line (a
\* filler line has no output to follow).
C18_MergedAfterEmittedLine ==
    Converted =>
        \A n \in LineIds \ {1} :
            (TranslationLine(n) /\ lrc.lines[n - 1].timed /\ ~TranslationLine(n - 1)
             /\ ~FillerLine(n - 1))
                => MergedAfterPrevious(n)

\* C18 witness: a line of words, its translation, a line of words: three
\* output lines, the second with the first one's stamp, the translated text
\* and the third line's stamp at its end.
C18_Witness ==
    /\ Converted
    /\ Len(lrc.lines) = 3 /\ Len(lrc.out) = 3
    /\ TranslationLine(2)
    /\ lrc.out[1].words # <<>>
    /\ lrc.out[2] = OutLine(Stamp(0, 1, 0), <<>>, <<Str("zh1")>>, Stamp(0, 3, 0))

\* the translation line n is merged into the output of line n - 1
Merged(n) ==
    /\ n > 1
    /\ TranslationLine(n)
    /\ lrc.lines[n - 1].timed /\ ~TranslationLine(n - 1) /\ ~FillerLine(n - 1)

\* the timed lines after line n that are not translation lines
TimedAfter(n) == {j \in LineIds : j > n /\ lrc.lines[j].timed /\ ~TranslationLine(j)}

\* C19: the trailing stamp of a merged translation line is the start stamp
\* of the next timed line that is not a translation line, further
\* translation lines being skipped, and without such a line the computed
\* end stamp of the line before it.
C19_TrailingSkipsTranslations ==
    Converted =>
        \A n \in LineIds : Merged(n) =>
            \A k \in OutIds \ {1} :
                (lrc.out[k].time = lrc.lines[n - 1].time /\ lrc.out[k].text # <<>>) =>
                    lrc.out[k].end =
                        IF TimedAfter(n) # {}
                        THEN lrc.lines[CHOOSE j \in TimedAfter(n) : \A m \in TimedAfter(n) : j <= m].time
                        ELSE lrc.out[k - 1].end

\* the lines that are neither filler lines nor translation lines, in order
RECURSIVE KeptFrom(_)
KeptFrom(n) ==
    IF n > Len(lrc.lines) THEN <<>>
    ELSE (IF FillerLine(n) \/ TranslationLine(n) THEN <<>> ELSE <<n>>) \o KeptFrom(n + 1)

\* the output without the merged translations
OwnOutput ==
    SelectSeq(lrc.out, LAMBDA o : ~(o.time # NoTime /\ o.text # <<>>))

\* C20: a timed line that is empty once its <0,0> markers and white space
\* are removed has no output line; every other line that is not a
\* translation line has exactly one, in input order, so the output is one
\* line shorter per filler line; a line that is not timed comes out
\* unchanged.
C20_FillerDroppedOthersOnce ==
    Converted =>
        /\ Len(OwnOutput) = Len(KeptFrom(1))
        /\ Len(OwnOutput) = Len(lrc.lines) - Cardinality({n \in LineIds : FillerLine(n)})
                                - Cardinality({n \in LineIds : TranslationLine(n)})
        /\ \A k \in 1..Len(KeptFrom(1)) :
               LET line == lrc.lines[KeptFrom(1)[k]]
               IN  IF line.timed
                   THEN OwnOutput[k].time = line.time /\ OwnOutput[k].text = <<>>
                   ELSE OwnOutput[k] = OutLine(NoTime, <<>>, line.content, NoTime)

\* C20 witness: a tag line, a filler line, a line of words and a line
\* without tokens give three output lines.
C20_Witness ==
    /\ Converted
    /\ Len(lrc.lines) = 4 /\ Len(lrc.out) = 3
    /\ ~lrc.lines[1].timed /\ FillerLine(2) /\ lrc.lines[2].content = <<Tok(0, 0)>>
    /\ lrc.out[1].text = lrc.lines[1].content
    /\ lrc.out[2].time = lrc.lines[3].time /\ lrc.out[2].words # <<>>
    /\ lrc.out[3].time = lrc.lines[4].time /\ lrc.out[3].words = <<>>

----------------------------------------------------------------------------
(* Properties of the Kuwo cipher *)

\* C15: the cyclic XOR with the key "yeelion" is its own inverse: the XOR
\* of _build_params followed by the XOR of _decode_lyrics gives back every
\* byte sequence.
C15_XorRoundTrip ==
    xr.st = "back" => xr.back = xr.plain

\* C15 witness: a sequence longer than the key, so that the key index wraps,
\* whose eighth byte the cipher changed.
C15_Witness ==
    /\ xr.st = "back"
    /\ Len(xr.plain) > 7
    /\ xr.sent[8] # xr.plain[8]
    /\ xr.sent[1] = 121 /\ xr.sent[7] = 0

----------------------------------------------------------------------------
(* Properties of auto_fetch *)

Returned == pc = "done" /\ result.kind = "returned"

\* the fetch tasks that yielded a document
Yielded == {t \in FetchIds : potential_lyrics_tasks[t].res.kind = "lyrics"}

SourceOf(c) == Song(c).source

\* the quality rank as the specification states it
QualityRank(lyrics) ==
    (IF lyrics.verbatim THEN 10 ELSE 0) + (IF lyrics.ts THEN 5 ELSE 0)
    + (IF lyrics.roma THEN 2 ELSE 0)

SurvivorIds == 1..Len(lyrics_results)

\* C1: the returned document comes from the earliest source of `sources`
\* that has a survivor in the tolerance band, and has the highest quality
\* rank among that source's survivors; rank or score of a later source's
\* survivor never overrides the priority.
C1_PriorityBeforeQuality ==
    (Returned /\ \E i \in SurvivorIds, p \in 1..Len(sources) :
                     SourceOf(lyrics_results[i].k) = sources[p]) =>
        LET win == result.lyrics
        IN  /\ \E i \in SurvivorIds : lyrics_results[i].v = win
            /\ \E p \in 1..Len(sources) :
                /\ sources[p] = SourceOf(win.info)
                /\ \A e \in 1..(p - 1), i \in SurvivorIds :
                       SourceOf(lyrics_results[i].k) # sources[e]
            /\ \A i \in SurvivorIds :
                   SourceOf(lyrics_results[i].k) = SourceOf(win.info)
                       => QualityRank(lyrics_results[i].v) <= QualityRank(win)

\* C1 witness: the winner is outranked by a survivor of a later source that
\* also scored higher, and outranks a survivor of its own source.
C1_Witness ==
    /\ Returned
    /\ \E i, j \in SurvivorIds :
        /\ SourceOf(lyrics_results[i].k) # SourceOf(result.lyrics.info)
        /\ QualityRank(lyrics_results[i].v) > QualityRank(result.lyrics)
        /\ ScoreOf(songs_score, lyrics_results[i].k) > ScoreOf(songs_score, result.lyrics.info)
        /\ SourceOf(lyrics_results[j].k) = SourceOf(result.lyrics.info)
        /\ QualityRank(lyrics_results[j].v) < QualityRank(result.lyrics)

\* C2: whatever the searches and fetches did, the call raises
\* LyricsNotFoundError exactly when no fetch task yielded a document, and
\* otherwise returns a document one of the fetch tasks yielded.
C2_NotFoundIffNoDocument ==
    (pc = "done" /\ result.kind # "NotEnoughInfoError") =>
        /\ result.kind \in {"LyricsNotFoundError", "returned"}
        /\ result.kind = "LyricsNotFoundError" <=> Yielded = {}
        /\ result.kind = "returned" =>
               \E t \in Yielded :
                   /\ result.lyrics.info = potential_lyrics_tasks[t].song
                   /\ result.lyrics = LyricsOf(potential_lyrics_tasks[t].song)

\* C2 witness: a document is returned although a search was still running
\* at the timeout and a fetch raised.
C2_Witness ==
    /\ Returned
    /\ \E t \in FetchIds : potential_lyrics_tasks[t].res.kind = "raised"
    /\ \E i \in SearchIds : i \notin completed_searches

\* highest score among the candidates that yielded a document
MaxYielded ==
    CHOOSE m \in {ScoreOf(songs_score, potential_lyrics_tasks[t].song) : t \in Yielded} :
        \A t \in Yielded : ScoreOf(songs_score, potential_lyrics_tasks[t].song) <= m

Stragglers == SearchIds \ completed_searches

\* C4: once the timeout has elapsed and every submitted fetch task has
\* completed, the call goes on to selection whether or not a straggler
\* search is still running.
C4_NoWaitForStragglers ==
    (pc = "shutdown" /\ \A t \in FetchIds : potential_lyrics_tasks[t].st = "done")
        => ENABLED ExitExecutor

\* C5: a search that had not completed when wait() returned contributes
\* nothing: no fetch task comes from it, and unless another entry of
\* `sources` searched the same source, no score, page, document or result
\* belongs to a candidate of its source.
C5_StragglerIgnored ==
    pc \notin {"start", "wait", "idle"} =>
        \A i \in Stragglers :
            /\ \A t \in FetchIds : potential_lyrics_tasks[t].from # i
            /\ (\A j \in completed_searches : sources[j] # sources[i]) =>
                /\ \A c \in DOMAIN songs_score : SourceOf(c) # sources[i]
                /\ \A t \in FetchIds : SourceOf(potential_lyrics_tasks[t].song) # sources[i]
                /\ \A n \in 1..Len(search_results) : SourceOf(search_results[n].k) # sources[i]
                /\ \A n \in SurvivorIds : SourceOf(lyrics_results[n].k) # sources[i]
                /\ result.kind = "returned" => SourceOf(result.lyrics.info) # sources[i]

\* C5 witness: while a fetch is still running in the fetch phase, a straggler
\* has finished with a page of candidates good enough to be fetched.
C5_Witness ==
    /\ pc = "collect"
    /\ \E t \in FetchIds : potential_lyrics_tasks[t].st = "running"
    /\ \E i \in Stragglers :
        /\ search_tasks[i].st = "done"
        /\ search_tasks[i].res.kind = "page"
        /\ ResultScore(info, keywords, search_tasks[i].res) # <<>>
        /\ \A t \in FetchIds : potential_lyrics_tasks[t].from # i

\* C7: the call raises NotEnoughInfoError exactly when the query has neither
\* a non-blank title nor a path, and then before any task is submitted;
\* otherwise every search gets the one keyword derived with the precedence
\* artist+title, title, path stem.
C7_KeywordOrNotEnoughInfo ==
    pc \notin {"start", "idle"} =>
        LET titled == info.title \notin {None, "", "  "}
        IN  /\ result.kind = "NotEnoughInfoError" <=> (~titled /\ info.path = None)
            /\ result.kind = "NotEnoughInfoError" =>
                   search_tasks = <<>> /\ potential_lyrics_tasks = <<>>
            /\ result.kind # "NotEnoughInfoError" =>
                   /\ Len(search_tasks) = Len(sources)
                   /\ \A i \in SearchIds :
                          search_tasks[i].keyword =
                              IF titled /\ info.artist # None THEN "A - T"
                              ELSE IF titled THEN "T"
                              ELSE "stem"

\* C7 witness: a query with a blank title, an artist and a path is searched
\* by its path stem.
C7_Witness ==
    /\ pc = "wait"
    /\ info.title = "  " /\ info.artist # None /\ info.path # None
    /\ \A i \in SearchIds : search_tasks[i].keyword = "stem"

\* the fetch tasks submitted for search task i
SubmittedFor(i) == {t \in FetchIds : potential_lyrics_tasks[t].from = i}

\* C9: for each search, at most 2 candidates are fetched, each with a score
\* strictly above min_score, and no gate-passing candidate left out scores
\* strictly higher than a fetched one.
C9_TopTwoAboveMinScore ==
    \A i \in processed :
        LET page == search_tasks[i].res
            subs == {potential_lyrics_tasks[t].song : t \in SubmittedFor(i)}
        IN  /\ Cardinality(SubmittedFor(i)) <= 2
            /\ \A c \in subs : songs_score[c] > 5500
            /\ \A n \in 1..Len(page.items) :
                   (page.items[n] \notin subs
                    /\ ~DurationGate(info.duration, Song(page.items[n]).duration))
                       => \A c \in subs :
                              CandidateScore(info, keywords, page, page.items[n]) <= songs_score[c]

\* C9 witness: a page with three candidates that pass the gate and min_score;
\* two are fetched and the third is left out.
C9_Witness ==
    \E i \in processed :
        /\ Len(ResultScore(info, keywords, search_tasks[i].res)) = 3
        /\ Cardinality(SubmittedFor(i)) = 2

\* C13: selection never starts while a submitted get_lyrics task is
\* incomplete, and every document a fetch task returned enters selection:
\* it is in lyrics_results when selection starts, the maximum is taken over
\* all of them, each one in the band survives, and the winner is ranked
\* against each survivor of its source.
C13_SelectionAfterAllFetches ==
    /\ pc \in {"select", "done"} =>
           \A t \in FetchIds : potential_lyrics_tasks[t].st = "done" /\ t \in collected
    /\ pc = "select" =>
           \A t \in Yielded :
               /\ DictHas(lyrics_results, potential_lyrics_tasks[t].song)
               /\ DictGet(lyrics_results, potential_lyrics_tasks[t].song)
                      = LyricsOf(potential_lyrics_tasks[t].song)
    /\ Returned =>
           \A t \in Yielded :
               LET c == potential_lyrics_tasks[t].song
               IN  /\ ScoreOf(songs_score, c) = MaxYielded => DictHas(lyrics_results, c)
                   /\ \A i \in SurvivorIds : ScoreOf(songs_score, lyrics_results[i].k) <= MaxYielded
                   /\ (DictHas(lyrics_results, c) /\ SourceOf(c) = SourceOf(result.lyrics.info))
                          => QualityRank(LyricsOf(c)) <= QualityRank(result.lyrics)

\* C13 witness: selection starts with the four documents of four fetch
\* tasks, two from each source.
C13_Witness ==
    /\ pc = "select"
    /\ Cardinality({potential_lyrics_tasks[t].song : t \in Yielded}) = 4
    /\ Len(lyrics_results) = 4

\* the rows of the recorded pages, page after page in the order recorded
RECURSIVE AllPageRows(_)
AllPageRows(sr) ==
    IF sr = <<>> THEN <<>> ELSE Head(sr).v \o AllPageRows(Tail(sr))

\* no survivor belongs to a source of the priority list
NoPrioritySurvivor ==
    \A i \in SurvivorIds, p \in 1..Len(sources) : SourceOf(lyrics_results[i].k) # sources[p]

\* C14: when no survivor's source is in the priority list, the call returns
\* a survivor of the highest quality rank, whatever its source, and, when
\* search results are requested, the concatenation of all recorded pages.
C14_FallbackTopRanked ==
    (Returned /\ NoPrioritySurvivor) =>
        /\ \E i \in SurvivorIds : lyrics_results[i].v = result.lyrics
        /\ \A i \in SurvivorIds : QualityRank(lyrics_results[i].v) <= QualityRank(result.lyrics)
        /\ return_search_results => result.merged = AllPageRows(search_results)
        /\ ~return_search_results => result.merged = <<>>

\* C14 witness: the two survivors carry a source that is not in the list;
\* the one returned has the higher rank and the lower score, and was not the
\* first document collected.
C14_Witness ==
    /\ Returned /\ NoPrioritySurvivor
    /\ return_search_results
    /\ Len(lyrics_results) = 2
    /\ result.lyrics # lyrics_results[1].v
    /\ ScoreOf(songs_score, result.lyrics.info) < ScoreOf(songs_score, lyrics_results[1].k)
    /\ Len(result.merged) = 4

\* how often song c occurs in a list of rows
RECURSIVE Occurrences(_, _)
Occurrences(rows, c) ==
    IF rows = <<>> THEN 0
    ELSE (IF Head(rows) = c THEN 1 ELSE 0) + Occurrences(Tail(rows), c)

\* C10: the merged result set is the winner's page, winner first, followed
\* by the pages of the other sources only: no row of the winner's page
\* occurs twice and every other source's page occurs exactly once.
C10_MergedWithoutRepeats ==
    (Returned /\ return_search_results) =>
        /\ result.merged # <<>>
        /\ result.merged[1] = result.lyrics.info
        /\ \A n \in 1..Len(search_results) :
               \A m \in 1..Len(search_results[n].v) :
                   Occurrences(result.merged, search_results[n].v[m]) = 1

\* C21: within one call, search is submitted at most once per source and
\* get_lyrics at most once per candidate, duplicate entries of sources
\* included.
C21_SearchAndFetchOnce ==
    /\ \A i, j \in SearchIds : i # j => sources[i] # sources[j]
    /\ \A t, u \in FetchIds :
           t # u => potential_lyrics_tasks[t].song # potential_lyrics_tasks[u].song

\* the score the kind of the query calls for: the structured formula for a
\* query with a title, the file name formula for a query searched by its
\* path stem
ScoreByQuery(c) ==
    IF TitleGiven(info)
    THEN StructuredScore(Song(c).tsc, ArtistScore(info, c), AlbumScore(info, c))
    ELSE FileNameScore(c)

\* C22: the formula a candidate is scored with follows from the query alone
\* (structured when it has a title, file name when the keyword was the path
\* stem), whatever keyword the page's metadata carries: every fetched
\* candidate carries that score, a page with a row that passes the gate and
\* min_score under it has a candidate fetched, and scoring never raises.
C22_ScoringFollowsQuery ==
    \A i \in processed :
        LET page == search_tasks[i].res
        IN  page.kind = "page" =>
                /\ \A t \in SubmittedFor(i) :
                       songs_score[potential_lyrics_tasks[t].song]
                           = ScoreByQuery(potential_lyrics_tasks[t].song)
                /\ (\E n \in 1..Len(page.items) :
                        /\ ~DurationGate(info.duration, Song(page.items[n]).duration)
                        /\ PassesMinScore(ScoreByQuery(page.items[n])))
                       => SubmittedFor(i) # {}

----------------------------------------------------------------------------
(* Properties of the lines _convert_kuwo_lrc emits *)

\* the positions of the word tokens in a content, in order
TokenPositions(content) ==
    SelectSeq([i \in 1..Len(content) |-> i], LAMBDA i : content[i].p = "tok")

\* the text that belongs to the token at position i: what follows it up to
\* the next token
TextOfToken(content, i) ==
    IF i + 1 <= Len(content) /\ content[i + 1].p = "str" THEN content[i + 1].s ELSE ""

\* the stamp ts shows the whole milliseconds of the time num / den
ShowsTime(ts, num, den) ==
    /\ ts # NoTime /\ ts.s \in 0..59 /\ ts.ms \in 0..999
    /\ den * TimeValue(ts) <= num
    /\ num < den * (TimeValue(ts) + 1)

\* the output lines that line n of the input is emitted as
EmittedFor(n) == {k \in OutIds : lrc.out[k].time = lrc.lines[n].time /\ lrc.out[k].text = <<>>}

\* the emitted line o has the layout C23 gives for the tokens of content
LaidOut(o, content) ==
    LET at == TokenPositions(content)
        start == TimeValue(o.time)
        sA == lrc.offsets[1]
        sB == lrc.offsets[2]
        last == content[at[Len(at)]]
    IN  /\ Len(o.words) = Len(at)
        /\ o.words[1].ts = NoTime
        /\ \A j \in 1..Len(at) : o.words[j].text = TextOfToken(content, at[j])
        /\ \A j \in 2..Len(at) :
               ShowsTime(o.words[j].ts,
                         start * 2 * sA + Abs(content[at[j]].a + content[at[j]].b), 2 * sA)
        /\ ShowsTime(o.end,
                     start * 2 * sA * sB + Abs(last.a + last.b) * sB + Abs(last.a - last.b) * sA,
                     2 * sA * sB)

\* C23: a timed line with word tokens that is not a translation line is
\* emitted as its start stamp, the first token's text without a stamp, for
\* each later token a stamp at start + |a + b| / (2 scaleA) and its text,
\* and one trailing stamp at start + |a + b| / (2 scaleA) + |a - b| /
\* (2 scaleB) of the last token, each stamp showing whole milliseconds; the
\* texts are those of the tokens, once each and in order. (A line that is
\* empty without its <0,0> markers is not emitted at all.)
C23_EmittedLineLayout ==
    Converted =>
        \A n \in LineIds :
            (lrc.lines[n].timed /\ ~TranslationLine(n)
             /\ TokenPositions(lrc.lines[n].content) # <<>>) =>
                /\ Cardinality(EmittedFor(n)) = (IF FillerLine(n) THEN 0 ELSE 1)
                /\ \A k \in EmittedFor(n) : LaidOut(lrc.out[k], lrc.lines[n].content)

\* C23 witness: [00:59.950]<0,100>la<100,100>li<-250,100>lu under
\* [kuwo:77] (scales 6 and 3) comes out as
\* [00:59.950]la[00:59.966]li[00:59.962]lu[01:00.020].
C23_Witness ==
    /\ Converted
    /\ lrc.offsets = <<6, 3>>
    /\ lrc.lines[1].content = <<Tok(0, 100), Str("la"), Tok(100, 100), Str("li"), Tok(-250, 100), Str("lu")>>
    /\ lrc.out = <<OutLine(Stamp(0, 59, 950),
                           <<[ts |-> NoTime, text |-> "la"],
                             [ts |-> Stamp(0, 59, 966), text |-> "li"],
                             [ts |-> Stamp(0, 59, 962), text |-> "lu"]>>,
                           <<>>, Stamp(1, 0, 20))>>

\* the texts of an emitted line, word texts and whole-line text alike
TextsOf(o) ==
    {o.words[j].text : j \in 1..Len(o.words)} \cup {o.text[j].s : j \in 1..Len(o.text)}

\* the CJK texts of line n
ZhTextsOf(n) ==
    {lrc.lines[n].content[i].s : i \in 1..Len(lrc.lines[n].content)} \cap CJK

\* C27: a translation line that does not immediately follow a timed line
\* that is neither a translation line nor a filler line has no output: no
\* emitted line starts with its stamp and its text is in no emitted line
\* (each translation line of a text has a text of its own).
C27_UnmergedTranslationSilent ==
    Converted =>
        \A n \in LineIds :
            (TranslationLine(n) /\ ~Merged(n)) =>
                \A k \in OutIds :
                    /\ lrc.out[k].time # lrc.lines[n].time
                    /\ TextsOf(lrc.out[k]) \cap ZhTextsOf(n) = {}

\* C27 witness: a translation line first, a tag line, a translation line, a
\* filler line: only the tag line comes out.
C27_Witness ==
    /\ Converted
    /\ Len(lrc.lines) = 4
    /\ TranslationLine(1) /\ ~lrc.lines[2].timed /\ TranslationLine(3) /\ FillerLine(4)
    /\ lrc.out = <<OutLine(NoTime, <<>>, lrc.lines[2].content, NoTime)>>

\* the emitted line o carries the texts of the tokens of content and none
\* of the text before the first token
TokenTextOnly(o, content) ==
    LET at == TokenPositions(content)
    IN  /\ Len(o.words) = Len(at)
        /\ \A j \in 1..Len(at) : o.words[j].text = TextOfToken(content, at[j])
        /\ \A i \in 1..(at[1] - 1) : content[i].s \notin TextsOf(o)

\* the emitted line o is the bare start stamp of line n
BareStamp(o, n) == o = OutLine(lrc.lines[n].time, <<>>, <<>>, NoTime)

\* C28 as stated: a timed line that is not a translation line, with
\* non-empty content and no word token, is emitted as its bare start stamp;
\* a line with tokens carries the text of its tokens only.
C28_BareForAnyContent ==
    Converted =>
        \A n \in LineIds :
            (lrc.lines[n].timed /\ ~TranslationLine(n)) =>
                IF TokenPositions(lrc.lines[n].content) = <<>>
                THEN lrc.lines[n].content # <<>> =>
                         \E k \in OutIds : EmittedFor(n) = {k} /\ BareStamp(lrc.out[k], n)
                ELSE \A k \in EmittedFor(n) : TokenTextOnly(lrc.out[k], lrc.lines[n].content)

\* C28 amended: the same for content that is not empty once white space
\* (and <0,0> markers) are removed; a line of white space only has no
\* output.
C28_BareForVisibleContent ==
    Converted =>
        \A n \in LineIds :
            (lrc.lines[n].timed /\ ~TranslationLine(n)) =>
                IF FillerLine(n) THEN EmittedFor(n) = {}
                ELSE \E k \in OutIds :
                         /\ EmittedFor(n) = {k}
                         /\ IF TokenPositions(lrc.lines[n].content) = <<>>
                            THEN BareStamp(lrc.out[k], n)
                            ELSE TokenTextOnly(lrc.out[k], lrc.lines[n].content)

\* C28 witness: [00:01.000]pre<0,100>la and [00:02.000]la come out as
\* [00:01.000]la[00:01.100] and [00:02.000].
C28_Witness ==
    /\ Converted
    /\ Len(lrc.lines) = 2
    /\ lrc.lines[1].content = <<Str("pre"), Tok(0, 100), Str("la")>>
    /\ lrc.lines[2].content = <<Str("la")>>
    /\ lrc.out = <<OutLine(Stamp(0, 1, 0), <<[ts |-> NoTime, text |-> "la"]>>, <<>>, Stamp(0, 1, 100)),
                   OutLine(Stamp(0, 2, 0), <<>>, <<>>, NoTime)>>

----------------------------------------------------------------------------
(* The returned document and the order of completion *)

\* the candidates whose fetch yielded a document
YieldedSongs == {potential_lyrics_tasks[t].song : t \in Yielded}

\* those within 15 points of the best score
BandSongs == {c \in YieldedSongs : MaxYielded - ScoreOf(songs_score, c) <= 1500}

\* the candidates selection chooses among: those of the first source of
\* `sources` that has one in the band, or all of the band when no source has
Eligible ==
    IF \E p \in 1..Len(sources) : \E c \in BandSongs : SourceOf(c) = sources[p]
    THEN LET first == CHOOSE p \in 1..Len(sources) :
                          /\ \E c \in BandSongs : SourceOf(c) = sources[p]
                          /\ \A r \in 1..(p - 1) : \A c \in BandSongs : SourceOf(c) # sources[r]
         IN  {c \in BandSongs : SourceOf(c) = sources[first]}
    ELSE BandSongs

\* the eligible candidates of the highest quality rank
Best ==
    {c \in Eligible :
        \A d \in Eligible : QualityRank(Song(d).lyr) <= QualityRank(Song(c).lyr)}

\* the documents of lyrics_results collected in another order
Reordered(f) == [i \in 1..Len(lyrics_results) |-> lyrics_results[f[i]]]

\* C26 as stated: with every search done within the timeout, the document
\* returned is the same for every order in which the documents could have
\* been collected, ties of quality rank included.
C26_SameDocumentInEveryOrder ==
    (Returned /\ Stragglers = {}) =>
        \A f \in Permutations(SurvivorIds) :
            Selection(sources, songs_score, search_results, Reordered(f), FALSE).lyrics
                = result.lyrics

\* C26 amended: the document returned is one of the best eligible
\* candidates, which the responses alone determine; when two of them have
\* the same quality rank, it is the one collected first.
C26_DeterminedUpToTies ==
    (Returned /\ Stragglers = {}) =>
        /\ result.lyrics.info \in Best
        /\ \A i \in SurvivorIds :
               lyrics_results[i].k \in Best =>
                   \E j \in 1..i : lyrics_results[j].k = result.lyrics.info

\* C26 witness: q1 (score 95) and q2 (score 90) of QM both yield a document
\* of rank 5; q2 was collected first and is returned.
C26_Witness ==
    /\ Returned /\ Stragglers = {}
    /\ Best = {"q1", "q2"}
    /\ lyrics_results[1].k = "q2"
    /\ result.lyrics.info = "q2"

----------------------------------------------------------------------------
(* search_lyrics_api (api_server.py and flask_server.py, the same code):   *)
(* one search per selected source, the pages interleaved.                  *)

\* all_sources
AllSources == <<"QM", "NE", "KG", "KW">>

\* source_map
SourceMap == [qm |-> "QM", ne |-> "NE", kg |-> "KG", kw |-> "KW"]

\* the pieces sources_param may have between its commas
ApiTokens == {"qm", "ne", "kw", " KG", "xx"}

\* s.strip().lower()
StripLower(tok) == IF tok = " KG" THEN "kg" ELSE tok

\* sources_param as the list of its pieces; <<>> is None or ""; of the
\* parameters without a valid piece the one with a single piece is kept
ApiParams ==
    {<<>>} \cup {p \in UNION {[1..n -> ApiTokens] : n \in 1..2} : p # <<"xx", "xx">>}

\* what the search of a source may answer to the keyword "K": a page of at
\* most MaxApiRows rows, None, an exception
ApiAnswers(src) ==
    {[kind |-> "page", keyword |-> "K", items |-> it] : it \in InjSeqs(SongsOf(src), MaxApiRows)}
    \cup {NoPage, RaisedPage}

\* selected_sources
SelectedSources(param) ==
    LET sources_list == [i \in 1..Len(param) |-> StripLower(param[i])]
        valid == SelectSeq(sources_list, LAMBDA t : t \in DOMAIN SourceMap)
        selected == [i \in 1..Len(valid) |-> SourceMap[valid[i]]]
    IN  IF param = <<>> \/ selected = <<>> THEN AllSources ELSE selected

\* the keys of results_by_source
SelectedKeys(param) ==
    {AllSources[p] : p \in {q \in 1..Len(AllSources) :
        \E i \in 1..Len(SelectedSources(param)) : SelectedSources(param)[i] = AllSources[q]}}

\* a future whose search is running
Running == [kind |-> "running", keyword |-> None, items |-> <<>>]

\* the dict is created and one search per key is submitted
ApiSubmit ==
    /\ api.st = "unset"
    /\ api' = [api EXCEPT !.st = "collect",
                          !.results_by_source = [s \in SelectedKeys(api.param) |-> <<>>],
                          !.futures = [s \in SelectedKeys(api.param) |-> Running]]
    /\ UNCHANGED <<resolverVars, other, gate, kw, sc, xr, lrc>>

\* the search of source s completes and as_completed yields its future
ApiCollect(s) ==
    /\ api.st = "collect"
    /\ api.futures[s] = Running
    /\ \E answer \in ApiAnswers(s) :
        api' = [api EXCEPT !.futures[s] = answer,
                           !.results_by_source[s] =
                               IF answer.kind = "page" /\ answer.items # <<>>
                               THEN answer.items ELSE @]
    /\ UNCHANGED <<resolverVars, other, gate, kw, sc, xr, lrc>>

\* max_len
MaxLen(by) ==
    IF \A s \in DOMAIN by : by[s] = <<>> THEN 0
    ELSE CHOOSE n \in {Len(by[s]) : s \in DOMAIN by} : \A s \in DOMAIN by : Len(by[s]) <= n

\* RowsAt going through the sources from the last to the first
RECURSIVE RowsAtBackwards(_, _, _)
RowsAtBackwards(by, i, p) ==
    IF p > Len(AllSources) THEN <<>>
    ELSE RowsAtBackwards(by, i, p + 1)
         \o (IF AllSources[p] \in DOMAIN by /\ i <= Len(by[AllSources[p]])
             THEN <<by[AllSources[p]][i]>> ELSE <<>>)

\* the inner loop: the i-th row of each source from all_sources[p] on
RECURSIVE RowsAt(_, _, _)
RowsAt(by, i, p) ==
    IF p > Len(AllSources) THEN <<>>
    ELSE (IF AllSources[p] \in DOMAIN by /\ i <= Len(by[AllSources[p]])
          THEN <<by[AllSources[p]][i]>> ELSE <<>>)
         \o RowsAt(by, i, p + 1)

\* the outer loop from row i on
RECURSIVE Interleave(_, _)
Interleave(by, i) ==
    IF i > MaxLen(by) THEN <<>> ELSE RowsAt(by, i, 1) \o Interleave(by, i + 1)

\* every future has been yielded: the executor is left and the rows are
\* interleaved
ApiMerge ==
    /\ api.st = "collect"
    /\ \A s \in DOMAIN api.futures : api.futures[s] # Running
    /\ api' = [api EXCEPT !.st = "done", !.final_results = Interleave(api.results_by_source, 1)]
    /\ UNCHANGED <<resolverVars, other, gate, kw, sc, xr, lrc>>

InitApi ==
    /\ ResolverIdle
    /\ other = NoOther
    /\ gate = NoGate
    /\ kw = NoKw
    /\ sc = NoSc
    /\ xr = NoXr
    /\ lrc = NoLrc
    /\ \E param \in ApiParams : api = [NoApi EXCEPT !.param = param, !.st = "unset"]

NextApi ==
    \/ ApiSubmit
    \/ \E s \in {"QM", "NE", "KG", "KW"} : s \in DOMAIN api.futures /\ ApiCollect(s)
    \/ ApiMerge

SpecApi == InitApi /\ [][NextApi]_vars

----------------------------------------------------------------------------
(* Properties of search_lyrics_api *)

\* the sources the parameter names, and all four when it names none
Named == {SourceMap[t] : t \in {"qm", "ne", "kg", "kw"} \cap {StripLower(api.param[i]) : i \in 1..Len(api.param)}}
Selected == IF Named = {} THEN {"QM", "NE", "KG", "KW"} ELSE Named

\* the place of a source in the fixed order QM, NE, KG, KW
Turn(s) == CASE s = "QM" -> 1 [] s = "NE" -> 2 [] s = "KG" -> 3 [] s = "KW" -> 4

\* the source whose search returns row c
Via(c) == CHOOSE s \in {"QM", "NE", "KG", "KW"} : c \in SongsOf(s)

\* the rows the search of source s answered with
Answer(s) ==
    IF s \in DOMAIN api.futures /\ api.futures[s].kind = "page" THEN api.futures[s].items ELSE <<>>

\* the place of row c in the page of its source
PlaceOf(c) == CHOOSE i \in 1..Len(Answer(Via(c))) : Answer(Via(c))[i] = c

\* C24: the list returned holds the rows of every selected source that
\* answered, each once and in the order of its page, and nothing of a source
\* that raised, returned nothing or was not selected; rows come round-robin,
\* by place in the page and within one place in the order QM, NE, KG, KW;
\* a parameter that names no valid source selects all four.
C24_RoundRobinFixedOrder ==
    api.st = "done" =>
        /\ DOMAIN api.futures = Selected
        /\ \A s \in {"QM", "NE", "KG", "KW"} :
               SelectSeq(api.final_results, LAMBDA c : Via(c) = s)
                   = (IF s \in Selected THEN Answer(s) ELSE <<>>)
        /\ \A m, n \in 1..Len(api.final_results) :
               m < n =>
                   \/ PlaceOf(api.final_results[m]) < PlaceOf(api.final_results[n])
                   \/ /\ PlaceOf(api.final_results[m]) = PlaceOf(api.final_results[n])
                      /\ Turn(Via(api.final_results[m])) < Turn(Via(api.final_results[n]))

\* C24 witness: "xx" names no source, so all four are searched; NE raised,
\* KG returned None, QM answered [q2, q1] and KW [w1]: the list is q2, w1, q1.
C24_Witness ==
    /\ api.st = "done"
    /\ api.param = <<"xx">>
    /\ api.futures["NE"].kind = "raised"
    /\ api.futures["KG"].kind = "none"
    /\ api.final_results = <<"q2", "w1", "q1">>

----------------------------------------------------------------------------
(* Two auto_fetch calls at once. Every name auto_fetch writes is a local of *)
(* the call (lines 46, 57-60, 62-63, 74) and the executor is created by    *)
(* the call (line 62): the variables above hold the call whose thread or   *)
(* worker takes the next step, `other` holds the locals of the second call.*)

\* the calls made together: (info, sources, return_search_results) twice
NoInfo == [title |-> None, artist |-> None, album |-> None, path |-> None, duration |-> 0]

PairCalls ==
    {<<TitledInfo, <<"KG">>, FALSE>>} \X {<<TitledInfo, <<"KG">>, FALSE>>, <<NoInfo, <<"KG">>, FALSE>>}

\* the locals of the call that holds the variables, as those of call id
Park(id) ==
    [id |-> id, info |-> info, sources |-> sources,
     return_search_results |-> return_search_results, pc |-> pc, keywords |-> keywords,
     search_tasks |-> search_tasks, completed_searches |-> completed_searches,
     processed |-> processed, potential_lyrics_tasks |-> potential_lyrics_tasks,
     collected |-> collected, songs_score |-> songs_score, search_results |-> search_results,
     lyrics_results |-> lyrics_results, errors |-> errors, result |-> result]

\* Switch with one errors list for both calls
SwitchSharedErrors ==
    /\ other.pc # "none"
    /\ info' = other.info
    /\ sources' = other.sources
    /\ return_search_results' = other.return_search_results
    /\ pc' = other.pc
    /\ keywords' = other.keywords
    /\ search_tasks' = other.search_tasks
    /\ completed_searches' = other.completed_searches
    /\ processed' = other.processed
    /\ potential_lyrics_tasks' = other.potential_lyrics_tasks
    /\ collected' = other.collected
    /\ songs_score' = other.songs_score
    /\ search_results' = other.search_results
    /\ lyrics_results' = other.lyrics_results
    /\ errors' = errors
    /\ result' = other.result
    /\ other' = Park(3 - other.id)
    /\ UNCHANGED <<gate, kw, sc, xr, lrc, api>>

\* the next step is taken by a thread of the other call: nothing is written
Switch ==
    /\ other.pc # "none"
    /\ info' = other.info
    /\ sources' = other.sources
    /\ return_search_results' = other.return_search_results
    /\ pc' = other.pc
    /\ keywords' = other.keywords
    /\ search_tasks' = other.search_tasks
    /\ completed_searches' = other.completed_searches
    /\ processed' = other.processed
    /\ potential_lyrics_tasks' = other.potential_lyrics_tasks
    /\ collected' = other.collected
    /\ songs_score' = other.songs_score
    /\ search_results' = other.search_results
    /\ lyrics_results' = other.lyrics_results
    /\ errors' = other.errors
    /\ result' = other.result
    /\ other' = Park(3 - other.id)
    /\ UNCHANGED <<gate, kw, sc, xr, lrc, api>>

InitPair ==
    /\ \E pair \in PairCalls :
        /\ info = pair[1][1]
        /\ sources = pair[1][2]
        /\ return_search_results = pair[1][3]
        /\ other = [id |-> 2, info |-> pair[2][1], sources |-> pair[2][2],
                    return_search_results |-> pair[2][3], pc |-> "start",
                    keywords |-> EmptyDict, search_tasks |-> <<>>, completed_searches |-> {},
                    processed |-> {}, potential_lyrics_tasks |-> <<>>, collected |-> {},
                    songs_score |-> EmptyDict, search_results |-> <<>>,
                    lyrics_results |-> <<>>, errors |-> <<>>, result |-> Pending]
    /\ pc = "start"
    /\ keywords = EmptyDict
    /\ search_tasks = <<>>
    /\ completed_searches = {}
    /\ processed = {}
    /\ potential_lyrics_tasks = <<>>
    /\ collected = {}
    /\ songs_score = EmptyDict
    /\ search_results = <<>>
    /\ lyrics_results = <<>>
    /\ errors = <<>>
    /\ result = Pending
    /\ gate = NoGate
    /\ kw = NoKw
    /\ sc = NoSc
    /\ xr = NoXr
    /\ lrc = NoLrc
    /\ api = NoApi

NextPair == Next \/ Switch

SpecPair == InitPair /\ [][NextPair]_vars

----------------------------------------------------------------------------
(* Properties of two calls at once *)

\* the step is one of the call that holds the variables
SameCall == other'.id = other.id

\* a worker of the call finishes a search or a get_lyrics
WorkerStep ==
    /\ SameCall
    /\ \/ \E i \in SearchIds : search_tasks[i].st = "running" /\ search_tasks'[i].st = "done"
       \/ \E t \in FetchIds : potential_lyrics_tasks[t].st = "running"
                               /\ potential_lyrics_tasks'[t].st = "done"

\* what the call's own responses make of its errors: one per search that
\* raised, one per page whose scoring raised, one per get_lyrics that raised
OwnErrors ==
    Cardinality({i \in processed : search_tasks[i].res.kind = "raised"})
    + Cardinality({i \in processed : search_tasks[i].res.kind = "page"
                                      /\ ScoringRaises(info, keywords, search_tasks[i].res)})
    + Cardinality({t \in collected : potential_lyrics_tasks[t].res.kind = "raised"})

\* scores, documents, errors and result of the call that holds the
\* variables are what its own responses give
OwnOutcome ==
    /\ \A c \in DOMAIN songs_score : songs_score[c] = ScoreByQuery(c)
    /\ DOMAIN songs_score = {potential_lyrics_tasks[t].song : t \in FetchIds}
    /\ Len(errors) = OwnErrors
    /\ pc = "select" => {lyrics_results[i].k : i \in SurvivorIds} = YieldedSongs
    /\ pc = "done" =>
           IF NotEnoughInfo(info) THEN result.kind = "NotEnoughInfoError"
           ELSE IF YieldedSongs = {} THEN result.kind = "LyricsNotFoundError"
           ELSE /\ Returned
                /\ {lyrics_results[i].k : i \in SurvivorIds} = BandSongs
                /\ result.lyrics.info \in Best

\* C25: with two calls running at once, a step of one call leaves every
\* local of the other call as it was, a worker task writes none of the
\* aggregation structures (songs_score, search_results, lyrics_results,
\* errors), and the scores, documents, errors and result of each call are
\* those its own responses give.
C25_CallsIndependent ==
    [][/\ SameCall => other' = other
       /\ ~SameCall => (other' = Park(other'.id) /\ songs_score' = other.songs_score
                        /\ search_results' = other.search_results
                        /\ lyrics_results' = other.lyrics_results
                        /\ errors' = other.errors /\ result' = other.result)
       /\ WorkerStep => UNCHANGED <<songs_score, search_results, lyrics_results, errors>>
       /\ OwnOutcome']_vars

\* C25 witness: both calls are done; one returned k1 without an error, the
\* other collected an error and raised LyricsNotFoundError.
C25_Witness ==
    /\ other.pc = "done" /\ pc = "done"
    /\ Returned /\ result.lyrics.info = "k1" /\ errors = <<>>
    /\ other.result.kind = "LyricsNotFoundError" /\ other.errors # <<>>
    /\ other.info = info

====
